---- MODULE Spec2Model ----
(***************************************************************************)
(* Model of the worldclock city database (package geonames): the           *)
(* background load (fetch, extract, parse, install), the lock-guarded      *)
(* accessors IsReady / GetError / Search and the search algorithm.         *)
(*                                                                         *)
(* Strings are sequences of runes (Unicode code points, as integers); the  *)
(* byte length Go's len() reports is the sum of the UTF-8 widths.          *)
(***************************************************************************)
EXTENDS Integers, Sequences, FiniteSets, TLC

(***************************************************************************)
(* Bounds of the model.                                                    *)
(***************************************************************************)
\* longest catalog enumerated for the search specification
MaxCatalog == 3
\* largest maxResults passed to Search (the smallest is -1)
MaxLimit == 2
\* number of concurrent reader goroutines (IsReady / GetError / Search callers)
NumReaders == 2
\* number of LoadAsync calls allowed in the reload specification
MaxLoads == 2
\* lines in a file handed to parseFile on its own
MaxLines == 2
\* iterations of the readiness poll; the program's loop has 300 (main.go:592)
PollLimit == 2

(***************************************************************************)
(* Program constants.                                                      *)
(***************************************************************************)
\* geonames.go:110   if len(query) < 3
\* main.go:147   the limit the UI passes to Search
SearchLimit == 50
MinQueryLen == 3
\* geonames.go:252   if len(fields) < 18
MinFields == 18
\* geonames.go:256   fields[1], 0-based
NameField == 1
\* geonames.go:257   fields[8], 0-based
CountryField == 8
\* geonames.go:258   fields[17], 0-based
TimezoneField == 17

(***************************************************************************)
(* Strings: package strings / utf8 as used by Search and parseFile.        *)
(***************************************************************************)
\* unicode.IsSpace on the Latin-1 range
IsSpace(r) == r \in {9, 10, 11, 12, 13, 32, 133, 160}

\* unicode.ToLower on the Latin-1 range (A-Z, and the accented capitals
\* U+00C0..U+00DE except the multiplication sign U+00D7)
ToLowerRune(r) ==
    IF r \in 65..90 THEN r + 32
    ELSE IF r \in 192..222 /\ r # 215 THEN r + 32
    ELSE r

\* number of bytes of the UTF-8 encoding of a rune
UTF8Len(r) ==
    IF r < 128 THEN 1 ELSE IF r < 2048 THEN 2 ELSE IF r < 65536 THEN 3 ELSE 4

RECURSIVE ByteLen(_)
\* len(s) of a Go string: its length in bytes
ByteLen(s) == IF s = <<>> THEN 0 ELSE UTF8Len(Head(s)) + ByteLen(Tail(s))

\* strings.ToLower
ToLower(s) == [i \in 1..Len(s) |-> ToLowerRune(s[i])]

RECURSIVE TrimLeft(_)
TrimLeft(s) == IF s # <<>> /\ IsSpace(Head(s)) THEN TrimLeft(Tail(s)) ELSE s

RECURSIVE TrimRight(_)
TrimRight(s) ==
    IF s # <<>> /\ IsSpace(s[Len(s)]) THEN TrimRight(SubSeq(s, 1, Len(s) - 1)) ELSE s

\* strings.TrimSpace
TrimSpace(s) == TrimRight(TrimLeft(s))

\* strings.HasPrefix
HasPrefix(s, p) == Len(s) >= Len(p) /\ SubSeq(s, 1, Len(p)) = p

\* strings.Contains
Contains(s, p) ==
    \E i \in 0..(Len(s) - Len(p)) : SubSeq(s, i + 1, i + Len(p)) = p

\* the query trimmed but compared in the case it was typed in
NormalizeQueryKeepsCase(query) == TrimSpace(query)

\* geonames.go:109   query = strings.ToLower(strings.TrimSpace(query))
NormalizeQuery(query) == ToLower(TrimSpace(query))

\* number of runes of a string (what a user counts as characters)
CharLen(s) == Len(s)

(***************************************************************************)
(* Database.Search (geonames.go:101-144).  The scan works on indices into  *)
(* db.cities so that catalog order is visible; Search maps them to the     *)
(* records.                                                                *)
(***************************************************************************)
\* geonames.go:121
IsExact(city, q) == ToLower(city.Name) = q

\* the contains branch left out
IsPartialPrefixOnly(city, q) ==
    /\ ToLower(city.Name) # q
    /\ HasPrefix(ToLower(city.Name), q)

\* geonames.go:123-128 (the two else-if branches)
IsPartial(city, q) ==
    /\ ToLower(city.Name) # q
    /\ (HasPrefix(ToLower(city.Name), q) \/ Contains(ToLower(city.Name), q))

RECURSIVE ScanFrom(_, _, _, _, _, _)
\* the for loop of geonames.go:117-135, from index i on, with the two
\* buckets built so far; the break test follows the classification of each
\* record
ScanFrom(cs, q, maxResults, i, exact, partial) ==
    IF i > Len(cs) THEN [exact |-> exact, partial |-> partial]
    ELSE LET e2 == IF IsExact(cs[i], q) THEN Append(exact, i) ELSE exact
             p2 == IF IsPartial(cs[i], q) THEN Append(partial, i) ELSE partial
         IN  IF Len(e2) + Len(p2) >= maxResults
             THEN [exact |-> e2, partial |-> p2]
             ELSE ScanFrom(cs, q, maxResults, i + 1, e2, p2)

\* the two buckets appended in the wrong order
CombinedPartialFirst(cs, q, maxResults) ==
    LET b == ScanFrom(cs, q, maxResults, 1, <<>>, <<>>)
    IN  b.partial \o b.exact

\* the scan started one record too late
CombinedSkipsFirst(cs, q, maxResults) ==
    LET b == ScanFrom(cs, q, maxResults, 2, <<>>, <<>>)
    IN  b.exact \o b.partial

\* geonames.go:138   results := append(exactMatches, partialMatches...)
Combined(cs, q, maxResults) ==
    LET b == ScanFrom(cs, q, maxResults, 1, <<>>, <<>>)
    IN  b.exact \o b.partial

\* geonames.go:110   the minimum-length test, on the byte length
TooShort(q) == ByteLen(q) < MinQueryLen

\* the final cut left out
TruncateNever(results, maxResults) == results

\* geonames.go:139-141   results = results[:maxResults] (for maxResults >= 0)
Truncate(results, maxResults) ==
    IF Len(results) > maxResults THEN SubSeq(results, 1, maxResults) ELSE results

\* geonames.go:139-140   slicing results[:maxResults] with a negative bound
\* panics (slice bounds out of range)
SearchPanics(cs, rdy, query, maxResults) ==
    /\ rdy
    /\ ~TooShort(NormalizeQuery(query))
    /\ Len(Combined(cs, NormalizeQuery(query), maxResults)) > maxResults
    /\ maxResults < 0

\* geonames.go:101-144   the indices (into cs) of the records Search returns,
\* in the order it returns them; <<>> when the call panics
SearchIdx(cs, rdy, query, maxResults) ==
    IF ~rdy THEN <<>>
    ELSE IF TooShort(NormalizeQuery(query)) THEN <<>>
    ELSE IF SearchPanics(cs, rdy, query, maxResults) THEN <<>>
    ELSE Truncate(Combined(cs, NormalizeQuery(query), maxResults), maxResults)

\* geonames.go:101-144   the records Search returns
Search(cs, rdy, query, maxResults) ==
    LET idx == SearchIdx(cs, rdy, query, maxResults)
    IN  [k \in 1..Len(idx) |-> cs[idx[k]]]

(***************************************************************************)
(* parseFile (geonames.go:233-277).  A file is a sequence of lines, a line *)
(* a string; bufio.Scanner hands the lines over one at a time.             *)
(***************************************************************************)
RECURSIVE SplitFrom(_, _, _)
\* strings.Split(line, sep) for a one-rune separator: cur is the field being
\* collected
SplitFrom(s, sep, cur) ==
    IF s = <<>> THEN <<cur>>
    ELSE IF Head(s) = sep THEN <<cur>> \o SplitFrom(Tail(s), sep, <<>>)
    ELSE SplitFrom(Tail(s), sep, Append(cur, Head(s)))

\* geonames.go:249   fields := strings.Split(line, "\t")
Split(line) == SplitFrom(line, 9, <<>>)

\* the field-count test asking for one field more than the timezone needs
LineSkippedOffByOne(fields) ==
    \/ Len(fields) <= MinFields
    \/ fields[TimezoneField + 1] = <<>>

\* geonames.go:252-263   the two skip tests on one line
LineSkipped(fields) ==
    \/ Len(fields) < MinFields
    \/ fields[TimezoneField + 1] = <<>>

\* geonames.go:265-269
CityOf(fields) ==
    [Name |-> fields[NameField + 1],
     CountryCode |-> fields[CountryField + 1],
     Timezone |-> fields[TimezoneField + 1]]

RECURSIVE parseLines(_)
\* geonames.go:247-270   the scan loop over the lines of the file
parseLines(lines) ==
    IF lines = <<>> THEN <<>>
    ELSE LET fields == Split(Head(lines))
         IN  IF LineSkipped(fields) THEN parseLines(Tail(lines))
             ELSE <<CityOf(fields)>> \o parseLines(Tail(lines))

(***************************************************************************)
(* State.                                                                  *)
(***************************************************************************)
VARIABLES
    \* Database (geonames.go:30-35)
    cities,      \* db.cities
    ready,       \* db.ready
    err,         \* db.err, "nil" or the error of a failed load
    mu,          \* db.mu: [writer |-> loader holding Lock or 0, readers |-> holders of RLock,
                 \*         pending |-> loader blocked in Lock() or 0]
    \* the goroutines started by LoadAsync
    lpc,         \* position of each load goroutine
    lerr,        \* the error load() is returning, "nil" if none
    lcities,     \* the local variable cities of load() (result of parseFile)
    lofs,        \* write offset (in lines) of the goroutine's handle on the target file
    lhit,        \* the target cache file existed when the load started
    lnet,        \* the load has made a network call
    lwrote,      \* the load has written to the cache directory
    \* the file system and the cache directory
    fsDir,       \* the cache directory exists
    fsZip,       \* the temporary archive cities15000.zip: "absent", "partial", "complete"
    fsTarget,    \* the cache file cities15000.txt: NoFile or File(its lines)
    \* callers of IsReady / GetError / Search
    rpc,         \* "idle" or "in" (inside the accessor, holding RLock)
    rop,         \* the call in progress
    robs,        \* what the last call returned
    \* a single Search call on a given catalog
    query, maxResults, results, resultIdx, panicked, called,
    \* the configuration (config.go)
    cfgCities,   \* Config.Cities of the configuration in memory (m.cfg)
    cfgCall,     \* the last call of a Config method and the error it returned
    diskCities,  \* the cities in ~/.config/worldclock.yaml
    \* a Save call step by step (config.go:140-185)
    spc,         \* position of the call, "idle" before and "done" after it
    stmp,        \* the temporary file worldclock-*.yaml.tmp: NoTemp or Temp(cities, complete)
    serr,        \* the error the call returned, "nil" if none
    \* the readiness poll (main.go:589-603) and what Update made of its message
    ppc,           \* position of the poll: "isready", "geterror" or "returned"
    polls,         \* iterations of the poll loop completed
    pollMsg,       \* the message the poll returned and Update has not yet handled
    pollHandled,   \* number of poll messages Update has handled
    geonamesReady, \* model.geonamesReady
    \* the UI model (main.go:41-74)
    uiState,     \* m.state: "main", "add", "delete", "confirm"
    uiErr,       \* m.err, "nil" or the error shown
    quitting,    \* m.quitting
    clocks,      \* m.clocks, the cities in display order
    searchInput, \* m.searchInput.Value()
    searchResults,
    selectedResult,
    justEnteredAddMode,
    deleteList,     \* m.deleteList, names
    deleteSelected, \* m.deleteSelected, a map: index -> bool (a function on its keys)
    deleteCursor,
    confirmAction   \* "nil" or [toDelete |-> the names the closure captured]

dbVars == <<cities, ready, err, mu>>
loadVars == <<lpc, lerr, lcities, lofs, lhit, lnet, lwrote>>
fsVars == <<fsDir, fsZip, fsTarget>>
readerVars == <<rpc, rop, robs>>
searchVars == <<query, maxResults, results, resultIdx, panicked, called>>
\* the configuration in memory and on disk (config.go:19-21, 82-88)
cfgVars == <<cfgCities, cfgCall, diskCities>>
\* the UI model (main.go:41-74)
uiVars ==
    <<uiState, uiErr, quitting, clocks, searchInput, searchResults, selectedResult,
      justEnteredAddMode, deleteList, deleteSelected, deleteCursor, confirmAction>>
saveVars == <<spc, stmp, serr>>
pollVars == <<ppc, polls, pollMsg, pollHandled, geonamesReady>>
appVars == <<cfgVars, uiVars, saveVars, pollVars>>
vars == <<dbVars, loadVars, fsVars, readerVars, searchVars, appVars>>

Loaders == 1..MaxLoads
Readers == 1..NumReaders
NoFile == [exists |-> FALSE, lines |-> <<>>]
File(lines) == [exists |-> TRUE, lines |-> lines]
NoOp == [op |-> "none"]

(***************************************************************************)
(* Data the model is run on.                                               *)
(***************************************************************************)
\* "Ber", DE
cBer == [Name |-> <<66, 101, 114>>, CountryCode |-> <<68, 69>>, Timezone |-> <<69, 47, 66>>]
\* "BER", US: the same name in another case
cBER == [Name |-> <<66, 69, 82>>, CountryCode |-> <<85, 83>>, Timezone |-> <<65, 47, 68>>]
\* "Bera": "ber" is a proper prefix
cBera == [Name |-> <<66, 101, 114, 97>>, CountryCode |-> <<69, 83>>, Timezone |-> <<69, 47, 77>>]
\* "Aber": "ber" is contained, not a prefix
cAber == [Name |-> <<65, 98, 101, 114>>, CountryCode |-> <<71, 66>>, Timezone |-> <<69, 47, 76>>]
\* "Zu:r" with u-umlaut (U+00FC, two bytes in UTF-8)
cZur == [Name |-> <<90, 252, 114>>, CountryCode |-> <<67, 72>>, Timezone |-> <<69, 47, 90>>]

SearchCities == {cBer, cBER, cBera, cAber, cZur}

RECURSIVE SeqsUpTo(_, _)
\* all sequences over S of length at most n
SeqsUpTo(S, n) ==
    IF n = 0 THEN {<<>>}
    ELSE LET shorter == SeqsUpTo(S, n - 1)
         IN  shorter \cup {Append(c, x) : c \in {d \in shorter : Len(d) = n - 1}, x \in S}

Catalogs == SeqsUpTo(SearchCities, MaxCatalog)

Queries ==
    { <<>>,                       \* ""
      <<32, 32>>,                 \* "  "
      <<98, 101>>,                \* "be"
      <<98, 101, 32>>,            \* "be "
      <<98, 101, 114>>,           \* "ber"
      <<66, 69, 82>>,             \* "BER"
      <<32, 66, 101, 114, 9>>,    \* " Ber\t"
      <<98, 101, 114, 97>>,       \* "bera"
      <<252, 114>>,               \* u-umlaut r: two characters, three bytes
      <<220, 82, 32>> }           \* U-umlaut R space

Limits == (-1)..MaxLimit

(***************************************************************************)
(* The search specification: one Search call on every catalog the load can *)
(* have installed (ready) and on the empty database (not ready).           *)
(***************************************************************************)
IdleLoad ==
    /\ lpc = [l \in Loaders |-> "idle"]
    /\ lerr = [l \in Loaders |-> "nil"]
    /\ lcities = [l \in Loaders |-> <<>>]
    /\ lofs = [l \in Loaders |-> 0]
    /\ lhit = [l \in Loaders |-> FALSE]
    /\ lnet = [l \in Loaders |-> FALSE]
    /\ lwrote = [l \in Loaders |-> FALSE]

IdleReaders ==
    /\ rpc = [r \in Readers |-> "idle"]
    /\ rop = [r \in Readers |-> NoOp]
    /\ robs = [r \in Readers |-> NoOp]

NoSearch ==
    /\ query = <<>>
    /\ maxResults = 0
    /\ results = <<>>
    /\ resultIdx = <<>>
    /\ panicked = FALSE
    /\ called = FALSE

(***************************************************************************)
(* The configuration (config.go): Config.Cities is a sequence of           *)
(* [Name, Timezone]; the methods are operators that return the new cities  *)
(* and the error.                                                          *)
(***************************************************************************)
\* the zones of the system's tz database: "E/B", "A/D", "E/M", "E/Z"
ValidZones == {cBer.Timezone, cBER.Timezone, cBera.Timezone, cZur.Timezone}

\* time.LoadLocation(tz) succeeds; the empty name is UTC
LoadLocationOk(tz) == tz = <<>> \/ tz \in ValidZones

\* the offset of a zone from UTC now, in hours
UTCOffsetOf(tz) ==
    IF tz = cBER.Timezone THEN -6
    ELSE IF tz = <<>> THEN 0
    ELSE IF tz = cZur.Timezone THEN 2
    ELSE 1

\* config.go:123-137   the zone of the machine
SystemTimezone == cBer.Timezone

\* config.go:91-120   createDefaultConfig: the one city "Local"
LocalCity == [Name |-> <<76, 111, 99, 97, 108>>, Timezone |-> SystemTimezone]

RECURSIVE ValidateFrom(_, _)
\* config.go:65-76   the loop of Validate from city i on
ValidateFrom(cs, i) ==
    IF i > Len(cs) THEN "nil"
    ELSE IF cs[i].Name = <<>> THEN "noname"
    ELSE IF cs[i].Timezone = <<>> THEN "notimezone"
    ELSE IF ~LoadLocationOk(cs[i].Timezone) THEN "invalidtz"
    ELSE ValidateFrom(cs, i + 1)

\* config.go:60-79
Validate(cs) == IF Len(cs) = 0 THEN "nocities" ELSE ValidateFrom(cs, 1)

\* AddCity without the test for an existing entry
AddCityNoDuplicateTest(cs, name, timezone) ==
    IF ~LoadLocationOk(timezone)
    THEN [cities |-> cs, err |-> "invalidtz"]
    ELSE [cities |-> Append(cs, [Name |-> name, Timezone |-> timezone]), err |-> "nil"]

\* config.go:188-208
AddCity(cs, name, timezone) ==
    IF \E i \in 1..Len(cs) : cs[i].Name = name /\ cs[i].Timezone = timezone
    THEN [cities |-> cs, err |-> "exists"]
    ELSE IF ~LoadLocationOk(timezone)
    THEN [cities |-> cs, err |-> "invalidtz"]
    ELSE [cities |-> Append(cs, [Name |-> name, Timezone |-> timezone]), err |-> "nil"]

\* the names a slice holds
NamesOf(names) == {names[i] : i \in 1..Len(names)}

\* DeleteCities without the test for an empty remainder
DeleteCitiesUnchecked(cs, names) ==
    [cities |-> SelectSeq(cs, LAMBDA c : c.Name \notin NamesOf(names)), err |-> "nil"]

\* config.go:211-233
DeleteCities(cs, names) ==
    LET remaining == SelectSeq(cs, LAMBDA c : c.Name \notin NamesOf(names))
    IN  IF Len(remaining) = 0
        THEN [cities |-> cs, err |-> "deleteall"]
        ELSE [cities |-> remaining, err |-> "nil"]

\* config.go:140-185   Save: the outcomes for the file, given what is on disk;
\* a failure of CreateTemp, Write, Close or Rename leaves the file as it was
Save(cs, disk) ==
    IF Validate(cs) # "nil"
    THEN {[disk |-> disk, err |-> "invalid"]}
    ELSE {[disk |-> cs, err |-> "nil"], [disk |-> disk, err |-> "saveio"]}

\* config.go:25-57   Load of an existing file: read, unmarshal, Validate
Load(disk) ==
    {[cities |-> disk, err |-> Validate(disk)], [cities |-> disk, err |-> "loadio"]}

\* a sort that leaves the clocks in the order of the configuration
SortKeepsConfigOrder(cs) == cs

RECURSIVE InsertByOffset(_, _)
\* sort.Slice on a short slice is an insertion sort: c goes behind every
\* clock whose offset is not greater
InsertByOffset(sorted, c) ==
    IF sorted = <<>> THEN <<c>>
    ELSE IF UTCOffsetOf(c.Timezone) < UTCOffsetOf(sorted[Len(sorted)].Timezone)
         THEN Append(InsertByOffset(SubSeq(sorted, 1, Len(sorted) - 1), c), sorted[Len(sorted)])
         ELSE Append(sorted, c)

RECURSIVE SortByUTCOffset(_)
\* clock.go:74-78
SortByUTCOffset(cs) ==
    IF cs = <<>> THEN <<>>
    ELSE InsertByOffset(SortByUTCOffset(SubSeq(cs, 1, Len(cs) - 1)), cs[Len(cs)])

NoCall == [op |-> "none", err |-> "nil"]
NoTemp == [exists |-> FALSE, cities |-> <<>>, complete |-> FALSE]
Temp(cs, complete) == [exists |-> TRUE, cities |-> cs, complete |-> complete]
NoMsg == [type |-> "none"]
NoAction == [set |-> FALSE, toDelete |-> <<>>]
NoSelection == [i \in {} |-> TRUE]

\* main.go:745-787   the model main() builds from the loaded configuration
AppStart(cfg) ==
    /\ cfgCities = cfg
    /\ cfgCall = NoCall
    /\ diskCities = cfg
    /\ uiState = "main"
    /\ uiErr = "nil"
    /\ quitting = FALSE
    /\ clocks = SortByUTCOffset(cfg)
    /\ searchInput = <<>>
    /\ searchResults = <<>>
    /\ selectedResult = 0
    /\ justEnteredAddMode = FALSE
    /\ deleteList = <<>>
    /\ deleteSelected = NoSelection
    /\ deleteCursor = 0
    /\ confirmAction = NoAction
    /\ spc = "idle"
    /\ stmp = NoTemp
    /\ serr = "nil"
    /\ ppc = "isready"
    /\ polls = 0
    /\ pollMsg = NoMsg
    /\ pollHandled = 0
    /\ geonamesReady = FALSE

\* the configuration of a first run
DefaultConfig == <<LocalCity>>

InitSearch ==
    /\ ready \in BOOLEAN
    /\ cities \in (IF ready THEN Catalogs ELSE {<<>>})
    /\ err = "nil"
    /\ mu = [writer |-> 0, readers |-> {}, pending |-> 0]
    /\ IdleLoad
    /\ IdleReaders
    /\ fsDir = TRUE /\ fsZip = "absent" /\ fsTarget = NoFile
    /\ NoSearch
    /\ AppStart(DefaultConfig)

\* db.Search(q, n), geonames.go:101-144, as one call
SearchCall(q, n) ==
    /\ ~called
    /\ query' = q
    /\ maxResults' = n
    /\ results' = Search(cities, ready, q, n)
    /\ resultIdx' = SearchIdx(cities, ready, q, n)
    /\ panicked' = SearchPanics(cities, ready, q, n)
    /\ called' = TRUE
    /\ UNCHANGED <<dbVars, loadVars, fsVars, readerVars, appVars>>

NextSearch == \E q \in Queries, n \in Limits : SearchCall(q, n)

SpecSearch == InitSearch /\ [][NextSearch]_vars

(***************************************************************************)
(* The dataset served by the remote and a stale cache file of an earlier   *)
(* run.  A line is its fields joined by tabs.                              *)
(***************************************************************************)
RECURSIVE JoinTab(_)
JoinTab(fields) ==
    IF Len(fields) = 1 THEN fields[1]
    ELSE fields[1] \o <<9>> \o JoinTab(Tail(fields))

\* a dataset row of 19 fields for a city; the other columns hold "x"
RowOf(city) ==
    JoinTab([k \in 1..19 |->
        IF k = NameField + 1 THEN city.Name
        ELSE IF k = CountryField + 1 THEN city.CountryCode
        ELSE IF k = TimezoneField + 1 THEN city.Timezone
        ELSE <<120>>])

\* a row cut short: three fields only
ShortRow == JoinTab(<<<<49>>, <<66, 101, 114>>, <<120>>>>)

DataFile == <<RowOf(cBer), ShortRow, RowOf(cBera)>>
OldFile == <<RowOf(cAber)>>

(***************************************************************************)
(* Database.LoadAsync and Database.load (geonames.go:46-83) with           *)
(* downloadAndExtract, downloadFile, extractFile and parseFile, one action *)
(* per step that touches the file system, the network or the Database.     *)
(***************************************************************************)
Goto(l, p) == lpc' = [lpc EXCEPT ![l] = p]
Failing(l, e, p) == lerr' = [lerr EXCEPT ![l] = e] /\ Goto(l, p)
Wrote(l) == lwrote' = [lwrote EXCEPT ![l] = TRUE]
MuFree == mu.writer = 0 /\ mu.readers = {}
\* sync.RWMutex: a writer blocked in Lock() keeps later writers behind it
NoOtherWriter(l) == mu.pending \in {0, l}

\* geonames.go:233-277   parseFile on the file's content
parseFile(content) == parseLines(content)

\* the existence test answering "absent" whatever is on disk
CacheMissAlways(target) == TRUE

\* geonames.go:64   os.IsNotExist(err) after os.Stat(cachePath)
CacheMiss(target) == ~target.exists

\* a write of one line at line offset pos (0-based) through a file handle
WriteAt(content, pos, line) ==
    [k \in 1..(IF pos + 1 > Len(content) THEN pos + 1 ELSE Len(content)) |->
        IF k = pos + 1 THEN line
        ELSE IF k <= Len(content) THEN content[k]
        ELSE <<>>]

\* geonames.go:46-47   LoadAsync starts the goroutine
LoadAsync(l) ==
    /\ lpc[l] = "idle"
    /\ Goto(l, "start")
    /\ UNCHANGED <<dbVars, lerr, lcities, lofs, lhit, lnet, lwrote, fsVars, readerVars, searchVars, appVars>>

\* the write lock taken at the start of load() and kept across fetch and parse
LoadLocksFromStart(l) ==
    /\ lpc[l] = "start"
    /\ MuFree
    /\ mu' = [mu EXCEPT !.writer = l]
    /\ lhit' = [lhit EXCEPT ![l] = fsTarget.exists]
    /\ Goto(l, "stat")
    /\ UNCHANGED <<cities, ready, err, lerr, lcities, lofs, lnet, lwrote, fsVars, readerVars, searchVars, appVars>>

\* geonames.go:58-61   load() begins: getCachePath
LoadGetCachePath(l) ==
    /\ lpc[l] = "start"
    /\ lhit' = [lhit EXCEPT ![l] = fsTarget.exists]
    /\ \/ Goto(l, "stat") /\ UNCHANGED lerr
       \/ Failing(l, "cachepath", "fail")
    /\ UNCHANGED <<dbVars, lcities, lofs, lnet, lwrote, fsVars, readerVars, searchVars, appVars>>

\* the cache test marking the database ready as soon as the file is found
LoadStatMarksReady(l) ==
    /\ lpc[l] = "stat"
    /\ IF CacheMiss(fsTarget) THEN Goto(l, "mkdir") ELSE Goto(l, "parse")
    /\ ready' = ~CacheMiss(fsTarget)
    /\ UNCHANGED <<cities, err, mu, lerr, lcities, lofs, lhit, lnet, lwrote, fsVars, readerVars, searchVars, appVars>>

\* geonames.go:64   the cache test
LoadStat(l) ==
    /\ lpc[l] = "stat"
    /\ IF CacheMiss(fsTarget) THEN Goto(l, "mkdir") ELSE Goto(l, "parse")
    /\ UNCHANGED <<dbVars, lerr, lcities, lofs, lhit, lnet, lwrote, fsVars, readerVars, searchVars, appVars>>

\* geonames.go:160-163   os.MkdirAll(cacheDir)
Mkdir(l) ==
    /\ lpc[l] = "mkdir"
    /\ \/ fsDir' = TRUE /\ Wrote(l) /\ Goto(l, "get") /\ UNCHANGED lerr
       \/ Failing(l, "mkdir", "fail") /\ UNCHANGED <<fsDir, lwrote>>
    /\ UNCHANGED <<dbVars, lcities, lofs, lhit, lnet, fsZip, fsTarget, readerVars, searchVars, appVars>>

\* geonames.go:182-190   http.Get and the status test
HttpGet(l) ==
    /\ lpc[l] = "get"
    /\ lnet' = [lnet EXCEPT ![l] = TRUE]
    /\ \/ Goto(l, "createzip") /\ UNCHANGED lerr
       \/ \E e \in {"get", "status"} : Failing(l, e, "fail")
    /\ UNCHANGED <<dbVars, lcities, lofs, lhit, lwrote, fsVars, readerVars, searchVars, appVars>>

\* geonames.go:192-195   os.Create(tempZip)
CreateZip(l) ==
    /\ lpc[l] = "createzip"
    /\ \/ fsZip' = "partial" /\ Wrote(l) /\ Goto(l, "copyzip") /\ UNCHANGED lerr
       \/ Failing(l, "createzip", "fail") /\ UNCHANGED <<fsZip, lwrote>>
    /\ UNCHANGED <<dbVars, lcities, lofs, lhit, lnet, fsDir, fsTarget, readerVars, searchVars, appVars>>

\* geonames.go:198-199   io.Copy(out, resp.Body); on failure downloadFile
\* returns before the deferred os.Remove of geonames.go:170 is registered
CopyZip(l) ==
    /\ lpc[l] = "copyzip"
    /\ \/ fsZip' = "complete" /\ Goto(l, "extract") /\ UNCHANGED lerr
       \/ Failing(l, "copyzip", "fail") /\ UNCHANGED fsZip
    /\ UNCHANGED <<dbVars, lcities, lofs, lhit, lnet, lwrote, fsDir, fsTarget, readerVars, searchVars, appVars>>

\* geonames.go:204-216   zip.OpenReader, the search for the entry, f.Open
ExtractOpen(l) ==
    /\ lpc[l] = "extract"
    /\ \/ fsZip = "complete" /\ Goto(l, "createtarget") /\ UNCHANGED lerr
       \/ \E e \in {"openzip", "noentry", "openentry"} : Failing(l, e, "rmzip")
    /\ UNCHANGED <<dbVars, lcities, lofs, lhit, lnet, lwrote, fsVars, readerVars, searchVars, appVars>>

\* geonames.go:218-221   os.Create(targetPath): the file exists, empty, from here on
CreateTarget(l) ==
    /\ lpc[l] = "createtarget"
    /\ \/ /\ fsTarget' = File(<<>>)
          /\ lofs' = [lofs EXCEPT ![l] = 0]
          /\ Wrote(l) /\ Goto(l, "copytarget") /\ UNCHANGED lerr
       \/ Failing(l, "createtarget", "rmzip") /\ UNCHANGED <<fsTarget, lofs, lwrote>>
    /\ UNCHANGED <<dbVars, lcities, lhit, lnet, fsDir, fsZip, readerVars, searchVars, appVars>>

\* geonames.go:224-225   io.Copy(out, rc), one line at a time; a failed
\* copy returns the error and leaves what was written
CopyTarget(l) ==
    /\ lpc[l] = "copytarget"
    /\ \/ /\ fsTarget' = File(WriteAt(fsTarget.lines, lofs[l], DataFile[lofs[l] + 1]))
          /\ lofs' = [lofs EXCEPT ![l] = @ + 1]
          /\ Goto(l, IF lofs[l] + 1 = Len(DataFile) THEN "rmzip" ELSE "copytarget")
          /\ UNCHANGED lerr
       \/ Failing(l, "copytarget", "rmzip") /\ UNCHANGED <<fsTarget, lofs>>
    /\ UNCHANGED <<dbVars, lcities, lhit, lnet, lwrote, fsDir, fsZip, readerVars, searchVars, appVars>>

\* geonames.go:170   the deferred os.Remove(tempZip), run when
\* downloadAndExtract returns after the download succeeded
RemoveZip(l) ==
    /\ lpc[l] = "rmzip"
    /\ fsZip' = "absent"
    /\ Goto(l, IF lerr[l] = "nil" THEN "parse" ELSE "fail")
    /\ UNCHANGED <<dbVars, lerr, lcities, lofs, lhit, lnet, lwrote, fsDir, fsTarget, readerVars, searchVars, appVars>>

\* parseFile handing back the records read before the scanner failed, and
\* load() installing what it was handed
ParseKeepsPartial(l) ==
    /\ lpc[l] = "parse"
    /\ \/ /\ fsTarget.exists
          /\ lcities' = [lcities EXCEPT ![l] = parseFile(fsTarget.lines)]
          /\ Goto(l, "lock") /\ UNCHANGED lerr
       \/ /\ fsTarget.exists /\ fsTarget.lines # <<>>
          /\ lcities' = [lcities EXCEPT ![l] = parseFile(<<Head(fsTarget.lines)>>)]
          /\ lerr' = [lerr EXCEPT ![l] = "scan"]
          /\ Goto(l, "lock")
       \/ Failing(l, "openfile", "fail") /\ UNCHANGED lcities
    /\ UNCHANGED <<dbVars, lofs, lhit, lnet, lwrote, fsVars, readerVars, searchVars, appVars>>

\* geonames.go:72-75   parseFile(cachePath): os.Open, the scan, scanner.Err;
\* on either failure parseFile returns nil records (geonames.go:236, 273)
Parse(l) ==
    /\ lpc[l] = "parse"
    /\ \/ /\ fsTarget.exists
          /\ lcities' = [lcities EXCEPT ![l] = parseFile(fsTarget.lines)]
          /\ Goto(l, "lock") /\ UNCHANGED lerr
       \/ \E e \in {"openfile", "scan"} : Failing(l, e, "fail") /\ UNCHANGED lcities
    /\ UNCHANGED <<dbVars, lofs, lhit, lnet, lwrote, fsVars, readerVars, searchVars, appVars>>

\* the install done without taking the lock
InstallLockSkipped(l) ==
    /\ lpc[l] = "lock"
    /\ Goto(l, "setcities")
    /\ UNCHANGED <<dbVars, lerr, lcities, lofs, lhit, lnet, lwrote, fsVars, readerVars, searchVars, appVars>>

\* geonames.go:77   db.mu.Lock()
InstallLock(l) ==
    /\ lpc[l] = "lock"
    /\ MuFree /\ NoOtherWriter(l)
    /\ mu' = [mu EXCEPT !.writer = l, !.pending = 0]
    /\ Goto(l, "setcities")
    /\ UNCHANGED <<cities, ready, err, lerr, lcities, lofs, lhit, lnet, lwrote, fsVars, readerVars, searchVars, appVars>>

\* the parsed records appended to the installed ones
InstallCitiesAppends(l) ==
    /\ lpc[l] = "setcities"
    /\ cities' = cities \o lcities[l]
    /\ Goto(l, "setready")
    /\ UNCHANGED <<ready, err, mu, lerr, lcities, lofs, lhit, lnet, lwrote, fsVars, readerVars, searchVars, appVars>>

\* geonames.go:78   db.cities = cities
InstallCities(l) ==
    /\ lpc[l] = "setcities"
    /\ cities' = lcities[l]
    /\ Goto(l, "setready")
    /\ UNCHANGED <<ready, err, mu, lerr, lcities, lofs, lhit, lnet, lwrote, fsVars, readerVars, searchVars, appVars>>

\* geonames.go:79   db.ready = true
InstallReady(l) ==
    /\ lpc[l] = "setready"
    /\ ready' = TRUE
    /\ Goto(l, "unlock")
    /\ UNCHANGED <<cities, err, mu, lerr, lcities, lofs, lhit, lnet, lwrote, fsVars, readerVars, searchVars, appVars>>

\* geonames.go:80-82   db.mu.Unlock(); return nil
InstallUnlock(l) ==
    /\ lpc[l] = "unlock"
    /\ mu' = [mu EXCEPT !.writer = 0]
    /\ Goto(l, "done")
    /\ UNCHANGED <<cities, ready, err, lerr, lcities, lofs, lhit, lnet, lwrote, fsVars, readerVars, searchVars, appVars>>

\* geonames.go:48-49   load() returned an error: db.mu.Lock()
ErrLock(l) ==
    /\ lpc[l] = "fail"
    /\ MuFree /\ NoOtherWriter(l)
    /\ mu' = [mu EXCEPT !.writer = l, !.pending = 0]
    /\ Goto(l, "seterr")
    /\ UNCHANGED <<cities, ready, err, lerr, lcities, lofs, lhit, lnet, lwrote, fsVars, readerVars, searchVars, appVars>>

\* the error of a failed load dropped instead of stored
ErrStoreDropped(l) ==
    /\ lpc[l] = "seterr"
    /\ mu' = [mu EXCEPT !.writer = 0]
    /\ Goto(l, "done")
    /\ UNCHANGED <<cities, ready, err, lerr, lcities, lofs, lhit, lnet, lwrote, fsVars, readerVars, searchVars, appVars>>

\* the failed load started over after its error is stored
ErrStoreThenRetry(l) ==
    /\ lpc[l] = "seterr"
    /\ err' = lerr[l]
    /\ mu' = [mu EXCEPT !.writer = 0]
    /\ Goto(l, "start")
    /\ UNCHANGED <<cities, ready, lerr, lcities, lofs, lhit, lnet, lwrote, fsVars, readerVars, searchVars, appVars>>

\* geonames.go:50-51   db.err = err; db.mu.Unlock()
ErrStore(l) ==
    /\ lpc[l] = "seterr"
    /\ err' = lerr[l]
    /\ mu' = [mu EXCEPT !.writer = 0]
    /\ Goto(l, "done")
    /\ UNCHANGED <<cities, ready, lerr, lcities, lofs, lhit, lnet, lwrote, fsVars, readerVars, searchVars, appVars>>

\* geonames.go:77, 49   db.mu.Lock() called while callers hold RLock: the
\* loader blocks, and sync.RWMutex admits no new reader until it has had the lock
LockRequest(l) ==
    /\ lpc[l] \in {"lock", "fail"}
    /\ mu.writer = 0 /\ mu.pending = 0 /\ mu.readers # {}
    /\ mu' = [mu EXCEPT !.pending = l]
    /\ UNCHANGED <<cities, ready, err, loadVars, fsVars, readerVars, searchVars, appVars>>

LoadStep(l) ==
    \/ LoadGetCachePath(l) \/ LoadStat(l) \/ Mkdir(l) \/ HttpGet(l)
    \/ CreateZip(l) \/ CopyZip(l) \/ ExtractOpen(l) \/ CreateTarget(l)
    \/ CopyTarget(l) \/ RemoveZip(l) \/ Parse(l)
    \/ InstallLock(l) \/ InstallCities(l) \/ InstallReady(l) \/ InstallUnlock(l)
    \/ ErrLock(l) \/ ErrStore(l) \/ LockRequest(l)

(***************************************************************************)
(* Callers of the accessors (geonames.go:86-144): RLock on entry, the      *)
(* deferred RUnlock on return.                                             *)
(***************************************************************************)
\* geonames.go:86-90
IsReady(rdy) == rdy

\* geonames.go:93-97
GetError(e) == e

\* the query and limit the concurrent callers search with
ReaderQuery == <<98, 101, 114>>

ReaderOps ==
    { [op |-> "IsReady"], [op |-> "GetError"],
      [op |-> "Search", q |-> ReaderQuery, n |-> MaxLimit] }

\* RLock granted while a loader is blocked in Lock()
ReaderCallIgnoresWriter(r, o) ==
    /\ rpc[r] = "idle"
    /\ mu.writer = 0
    /\ mu' = [mu EXCEPT !.readers = @ \cup {r}]
    /\ rpc' = [rpc EXCEPT ![r] = "in"]
    /\ rop' = [rop EXCEPT ![r] = o]
    /\ UNCHANGED <<cities, ready, err, loadVars, fsVars, robs, searchVars, appVars>>

\* geonames.go:87, 94, 102   db.mu.RLock(): waits for a writer that holds
\* the lock or is blocked in Lock()
ReaderCall(r, o) ==
    /\ rpc[r] = "idle"
    /\ mu.writer = 0 /\ mu.pending = 0
    /\ mu' = [mu EXCEPT !.readers = @ \cup {r}]
    /\ rpc' = [rpc EXCEPT ![r] = "in"]
    /\ rop' = [rop EXCEPT ![r] = o]
    /\ UNCHANGED <<cities, ready, err, loadVars, fsVars, robs, searchVars, appVars>>

\* an accessor that records a failure in db.err when it has nothing to return
ReaderReturnSetsErr(r) ==
    /\ rpc[r] = "in"
    /\ robs' = [robs EXCEPT ![r] =
          IF rop[r].op = "IsReady" THEN [op |-> "IsReady", val |-> IsReady(ready)]
          ELSE IF rop[r].op = "GetError" THEN [op |-> "GetError", val |-> GetError(err)]
          ELSE [op |-> "Search", val |-> Search(cities, ready, rop[r].q, rop[r].n)]]
    /\ err' = IF rop[r].op = "Search" /\ ~ready THEN "notready" ELSE err
    /\ mu' = [mu EXCEPT !.readers = @ \ {r}]
    /\ rpc' = [rpc EXCEPT ![r] = "idle"]
    /\ rop' = [rop EXCEPT ![r] = NoOp]
    /\ UNCHANGED <<cities, ready, loadVars, fsVars, searchVars, appVars>>

\* an accessor returning without its RUnlock
ReaderReturnKeepsRLock(r) ==
    /\ rpc[r] = "in"
    /\ robs' = [robs EXCEPT ![r] =
          IF rop[r].op = "IsReady" THEN [op |-> "IsReady", val |-> IsReady(ready)]
          ELSE IF rop[r].op = "GetError" THEN [op |-> "GetError", val |-> GetError(err)]
          ELSE [op |-> "Search", val |-> Search(cities, ready, rop[r].q, rop[r].n)]]
    /\ rpc' = [rpc EXCEPT ![r] = "idle"]
    /\ rop' = [rop EXCEPT ![r] = NoOp]
    /\ UNCHANGED <<cities, ready, err, mu, loadVars, fsVars, searchVars, appVars>>

\* geonames.go:88-89, 95-96, 103-143   the body and the deferred RUnlock
ReaderReturn(r) ==
    /\ rpc[r] = "in"
    /\ robs' = [robs EXCEPT ![r] =
          IF rop[r].op = "IsReady" THEN [op |-> "IsReady", val |-> IsReady(ready)]
          ELSE IF rop[r].op = "GetError" THEN [op |-> "GetError", val |-> GetError(err)]
          ELSE [op |-> "Search", val |-> Search(cities, ready, rop[r].q, rop[r].n)]]
    /\ mu' = [mu EXCEPT !.readers = @ \ {r}]
    /\ rpc' = [rpc EXCEPT ![r] = "idle"]
    /\ rop' = [rop EXCEPT ![r] = NoOp]
    /\ UNCHANGED <<cities, ready, err, loadVars, fsVars, searchVars, appVars>>

(***************************************************************************)
(* The program as main starts it (main.go:768-769): NewDatabase, one       *)
(* LoadAsync, and callers of the accessors at any time.  The cache file is *)
(* absent (first run) or was left by an earlier run.                       *)
(***************************************************************************)
Init ==
    /\ cities = <<>>
    /\ ready = FALSE
    /\ err = "nil"
    /\ mu = [writer |-> 0, readers |-> {}, pending |-> 0]
    /\ IdleLoad
    /\ IdleReaders
    /\ fsTarget \in {NoFile, File(DataFile), File(OldFile)}
    /\ fsDir \in (IF fsTarget.exists THEN {TRUE} ELSE BOOLEAN)
    /\ fsZip = "absent"
    /\ NoSearch
    /\ AppStart(DefaultConfig)

Next ==
    \/ LoadAsync(1)
    \/ \E l \in Loaders : LoadStep(l)
    \/ \E r \in Readers : \E o \in ReaderOps : ReaderCall(r, o)
    \/ \E r \in Readers : ReaderReturn(r)

Spec == Init /\ [][Next]_vars

\* main.go:86-165, 589-603   the caller of the accessors in the program: the
\* UI, which polls IsReady and GetError and searches as keys arrive
UICaller == 1

\* The run with its one load and the UI as the caller, which may call any
\* accessor at any time, any number of times, or stop calling.
NextFair ==
    \/ LoadAsync(1)
    \/ LoadStep(1)
    \/ \E o \in ReaderOps : ReaderCall(UICaller, o)
    \/ ReaderReturn(UICaller)

\* The scheduling of the run: the loader goroutine keeps being scheduled and
\* each of its I/O steps returns; an accessor, once entered, returns
\* (geonames.go:88, 95, 103 defer RUnlock).  Nothing obliges a caller to call.
Fairness ==
    /\ WF_vars(LoadStep(1))
    /\ WF_vars(ReaderReturn(UICaller))

SpecFair == Init /\ [][NextFair]_vars /\ Fairness

(***************************************************************************)
(* The Database used with repeated LoadAsync calls: up to MaxLoads load    *)
(* goroutines, started in order, running concurrently on one cache         *)
(* directory, while the UI polls for the outcome.                          *)
(***************************************************************************)
\* main.go:589-603   what the readiness poll calls
PollOps == {o \in ReaderOps : o.op \in {"IsReady", "GetError"}}

\* geonames.go:46-47   the next LoadAsync call
LoadAsyncAgain(l) ==
    /\ IF l = 1 THEN TRUE ELSE lpc[l - 1] # "idle"
    /\ LoadAsync(l)

NextReload ==
    \/ \E l \in Loaders : LoadAsyncAgain(l)
    \/ \E l \in Loaders : LoadStep(l)
    \/ \E o \in PollOps : ReaderCall(UICaller, o)
    \/ ReaderReturn(UICaller)

SpecReload == Init /\ [][NextReload]_vars

(***************************************************************************)
(* The Config methods on their own (config.go:188-233): any sequence of     *)
(* AddCity and DeleteCities calls on a configuration that was loaded.       *)
(***************************************************************************)
\* a city named like the catalog's "Ber", in a zone west of it
BerWest == [Name |-> cBer.Name, Timezone |-> cBER.Timezone]

\* valid configurations a run can load
InitConfigs == {DefaultConfig, <<LocalCity, BerWest>>}

ConfigNames == {LocalCity.Name, cBer.Name}
\* two zones of the system, one it does not know and the empty name
ConfigZones == {SystemTimezone, cBER.Timezone, cAber.Timezone, <<>>}

\* the database before LoadAsync, and nobody searching
InitDatabase ==
    /\ cities = <<>>
    /\ ready = FALSE
    /\ err = "nil"
    /\ mu = [writer |-> 0, readers |-> {}, pending |-> 0]
    /\ IdleLoad
    /\ IdleReaders
    /\ NoSearch

InitConfig ==
    /\ InitDatabase
    /\ fsDir = TRUE /\ fsZip = "absent" /\ fsTarget = NoFile
    /\ \E cfg \in InitConfigs : AppStart(cfg)

CallAddCity(name, timezone) ==
    /\ cfgCities' = AddCity(cfgCities, name, timezone).cities
    /\ cfgCall' = [op |-> "AddCity", name |-> name, timezone |-> timezone,
                   err |-> AddCity(cfgCities, name, timezone).err]
    /\ UNCHANGED <<dbVars, loadVars, fsVars, readerVars, searchVars, diskCities, uiVars, pollVars, saveVars>>

CallDeleteCities(names) ==
    /\ cfgCities' = DeleteCities(cfgCities, names).cities
    /\ cfgCall' = [op |-> "DeleteCities", names |-> names,
                   err |-> DeleteCities(cfgCities, names).err]
    /\ UNCHANGED <<dbVars, loadVars, fsVars, readerVars, searchVars, diskCities, uiVars, pollVars, saveVars>>

NextConfig ==
    \/ \E name \in ConfigNames, timezone \in ConfigZones : CallAddCity(name, timezone)
    \/ \E names \in SeqsUpTo(ConfigNames, Cardinality(ConfigNames)) : CallDeleteCities(names)

SpecConfig == InitConfig /\ [][NextConfig]_vars

(***************************************************************************)
(* Config.Save step by step (config.go:140-185), called any number of      *)
(* times on configurations that pass Validate and on ones that do not,      *)
(* over a file that holds a valid configuration.                            *)
(***************************************************************************)
\* a city without a zone, and one in a zone the system does not know
NoZoneCity == [Name |-> cBera.Name, Timezone |-> <<>>]
OddZoneCity == [Name |-> cAber.Name, Timezone |-> cAber.Timezone]

SaveConfigs ==
    InitConfigs \cup {<<>>, <<LocalCity, NoZoneCity>>, <<LocalCity, OddZoneCity>>, <<BerWest>>}

SaveGoto(p) == spc' = p
SaveFailing(e, p) == serr' = e /\ spc' = p

\* the caller changes the configuration in memory and calls Save
SaveCall(cs) ==
    /\ spc \in {"idle", "done"}
    /\ cfgCities' = cs
    /\ serr' = "nil"
    /\ SaveGoto("configpath")
    /\ UNCHANGED <<dbVars, loadVars, fsVars, readerVars, searchVars, cfgCall, diskCities,
                   uiVars, pollVars, stmp>>

\* config.go:141-144   getConfigPath
SaveGetConfigPath ==
    /\ spc = "configpath"
    /\ \/ SaveGoto("validate") /\ UNCHANGED serr
       \/ SaveFailing("configpath", "done")
    /\ UNCHANGED <<dbVars, loadVars, fsVars, readerVars, searchVars, cfgVars, uiVars, pollVars, stmp>>

\* config.go:147-149   Validate before saving
SaveValidate ==
    /\ spc = "validate"
    /\ IF Validate(cfgCities) = "nil"
       THEN SaveGoto("marshal") /\ UNCHANGED serr
       ELSE SaveFailing("invalid", "done")
    /\ UNCHANGED <<dbVars, loadVars, fsVars, readerVars, searchVars, cfgVars, uiVars, pollVars, stmp>>

\* config.go:152-155   yaml.Marshal
SaveMarshal ==
    /\ spc = "marshal"
    /\ \/ SaveGoto("createtemp") /\ UNCHANGED serr
       \/ SaveFailing("marshal", "done")
    /\ UNCHANGED <<dbVars, loadVars, fsVars, readerVars, searchVars, cfgVars, uiVars, pollVars, stmp>>

\* config.go:158-163   os.CreateTemp in the directory of the config file
SaveCreateTemp ==
    /\ spc = "createtemp"
    /\ \/ stmp' = Temp(<<>>, FALSE) /\ SaveGoto("write") /\ UNCHANGED serr
       \/ SaveFailing("createtemp", "done") /\ UNCHANGED stmp
    /\ UNCHANGED <<dbVars, loadVars, fsVars, readerVars, searchVars, cfgVars, uiVars, pollVars>>

\* config.go:166-170   tempFile.Write(data); on failure some of the data may
\* be in the file, which is closed and then removed
SaveWrite ==
    /\ spc = "write"
    /\ \/ stmp' = Temp(cfgCities, TRUE) /\ SaveGoto("close") /\ UNCHANGED serr
       \/ /\ \E k \in 0..(Len(cfgCities) - 1) : stmp' = Temp(SubSeq(cfgCities, 1, k), FALSE)
          /\ SaveFailing("write", "remove")
    /\ UNCHANGED <<dbVars, loadVars, fsVars, readerVars, searchVars, cfgVars, uiVars, pollVars>>

\* config.go:173-176   tempFile.Close()
SaveClose ==
    /\ spc = "close"
    /\ \/ SaveGoto("rename") /\ UNCHANGED serr
       \/ SaveFailing("close", "remove")
    /\ UNCHANGED <<dbVars, loadVars, fsVars, readerVars, searchVars, cfgVars, uiVars, pollVars, stmp>>

\* a failed rename returning without removing the temporary file
SaveRenameLeavesTemp ==
    /\ spc = "rename"
    /\ \/ /\ diskCities' = stmp.cities
          /\ stmp' = NoTemp
          /\ SaveGoto("done") /\ UNCHANGED serr
       \/ SaveFailing("rename", "done") /\ UNCHANGED <<diskCities, stmp>>
    /\ UNCHANGED <<dbVars, loadVars, fsVars, readerVars, searchVars, cfgCities, cfgCall, uiVars, pollVars>>

\* config.go:179-182   os.Rename(tempPath, configPath)
SaveRename ==
    /\ spc = "rename"
    /\ \/ /\ diskCities' = stmp.cities
          /\ stmp' = NoTemp
          /\ SaveGoto("done") /\ UNCHANGED serr
       \/ SaveFailing("rename", "remove") /\ UNCHANGED <<diskCities, stmp>>
    /\ UNCHANGED <<dbVars, loadVars, fsVars, readerVars, searchVars, cfgCities, cfgCall, uiVars, pollVars>>

\* config.go:168, 174, 180   os.Remove(tempPath) on the way out of a failure
SaveRemoveTemp ==
    /\ spc = "remove"
    /\ stmp' = NoTemp
    /\ SaveGoto("done")
    /\ UNCHANGED <<dbVars, loadVars, fsVars, readerVars, searchVars, cfgVars, uiVars, pollVars, serr>>

InitSave ==
    /\ InitDatabase
    /\ fsDir = TRUE /\ fsZip = "absent" /\ fsTarget = NoFile
    /\ \E cfg \in InitConfigs : AppStart(cfg)

NextSave ==
    \/ \E cs \in SaveConfigs : SaveCall(cs)
    \/ SaveGetConfigPath \/ SaveValidate \/ SaveMarshal \/ SaveCreateTemp
    \/ SaveWrite \/ SaveClose \/ SaveRename \/ SaveRemoveTemp

SpecSave == InitSave /\ [][NextSave]_vars

(***************************************************************************)
(* The UI (main.go:86-360).  M is the model value Update receives plus the  *)
(* configuration it points to and the file behind it; a handler is an       *)
(* operator from that record and the key to the set of records it can       *)
(* leave (Save and Load can fail), and Update is one action per message.    *)
(***************************************************************************)
M ==
    [state |-> uiState, err |-> uiErr, quitting |-> quitting, clocks |-> clocks,
     searchInput |-> searchInput, searchResults |-> searchResults,
     selectedResult |-> selectedResult, justEnteredAddMode |-> justEnteredAddMode,
     deleteList |-> deleteList, deleteSelected |-> deleteSelected,
     deleteCursor |-> deleteCursor, confirmAction |-> confirmAction,
     cfg |-> cfgCities, disk |-> diskCities]

\* main.go:331-360
reloadClocks(m) ==
    { IF l.err # "nil"
      THEN [m EXCEPT !.err = l.err, !.state = "main"]
      ELSE [m EXCEPT !.cfg = l.cities, !.clocks = SortByUTCOffset(l.cities),
                     !.state = "main"]
      : l \in Load(m.disk) }

\* 'a' entering the add view whatever the database says
handleMainKeysAlwaysAdds(m, key) ==
    IF key \in {"q", "ctrl+c"} THEN {[m EXCEPT !.quitting = TRUE]}
    ELSE IF key = "a" THEN
        {[m EXCEPT !.state = "add", !.searchInput = <<>>, !.searchResults = <<>>,
                   !.selectedResult = 0, !.justEnteredAddMode = TRUE]}
    ELSE IF key = "d" THEN
        {[m EXCEPT !.state = "delete",
                   !.deleteList = [i \in 1..Len(m.cfg) |-> m.cfg[i].Name],
                   !.deleteSelected = NoSelection, !.deleteCursor = 0]}
    ELSE {m}

\* main.go:183-213
handleMainKeys(m, key) ==
    IF key \in {"q", "ctrl+c"} THEN {[m EXCEPT !.quitting = TRUE]}
    ELSE IF key = "a" THEN
        IF IsReady(ready)
        THEN {[m EXCEPT !.state = "add", !.searchInput = <<>>, !.searchResults = <<>>,
                        !.selectedResult = 0, !.justEnteredAddMode = TRUE]}
        ELSE {m}
    ELSE IF key = "d" THEN
        {[m EXCEPT !.state = "delete",
                   !.deleteList = [i \in 1..Len(m.cfg) |-> m.cfg[i].Name],
                   !.deleteSelected = NoSelection, !.deleteCursor = 0]}
    ELSE {m}

\* main.go:234-247   Enter in the add view with a result under the cursor
addSelected(m) ==
    LET city == m.searchResults[m.selectedResult + 1]
        added == AddCity(m.cfg, city.Name, city.Timezone)
    IN  IF added.err # "nil" THEN {[m EXCEPT !.err = added.err]}
        ELSE UNION { IF sv.err # "nil"
                     THEN {[m EXCEPT !.cfg = added.cities, !.err = sv.err]}
                     ELSE reloadClocks([m EXCEPT !.cfg = added.cities, !.disk = sv.disk])
                     : sv \in Save(added.cities, m.disk) }

\* main.go:216-251
handleAddKeys(m, key) ==
    IF key = "esc" THEN {[m EXCEPT !.state = "main"]}
    ELSE IF key = "up" THEN
        {IF m.selectedResult > 0 THEN [m EXCEPT !.selectedResult = @ - 1] ELSE m}
    ELSE IF key = "down" THEN
        {IF m.selectedResult < Len(m.searchResults) - 1
         THEN [m EXCEPT !.selectedResult = @ + 1] ELSE m}
    ELSE IF key = "enter" THEN
        IF Len(m.searchResults) > 0 /\ m.selectedResult < Len(m.searchResults)
        THEN addSelected(m)
        ELSE {m}
    ELSE {m}

\* main.go:271-273   m.deleteSelected[m.deleteCursor] = !m.deleteSelected[m.deleteCursor]
toggle(sel, idx) ==
    [i \in DOMAIN sel \cup {idx} |->
        IF i = idx THEN ~(IF idx \in DOMAIN sel THEN sel[idx] ELSE FALSE) ELSE sel[i]]

RECURSIVE collect(_, _, _)
\* main.go:283-288   the names at the selected indices; the map is ranged
\* over in an order Go leaves open, and DeleteCities does not depend on it
collect(sel, list, idx) ==
    IF idx >= Len(list) THEN <<>>
    ELSE IF idx \in DOMAIN sel /\ sel[idx]
         THEN <<list[idx + 1]>> \o collect(sel, list, idx + 1)
         ELSE collect(sel, list, idx + 1)

\* Down moving the cursor without the test against the end of the list
handleDeleteKeysDownUnguarded(m, key) ==
    IF key = "esc" THEN {[m EXCEPT !.state = "main"]}
    ELSE IF key = "up" THEN
        {IF m.deleteCursor > 0 THEN [m EXCEPT !.deleteCursor = @ - 1] ELSE m}
    ELSE IF key = "down" THEN {[m EXCEPT !.deleteCursor = @ + 1]}
    ELSE IF key = " " THEN
        {[m EXCEPT !.deleteSelected = toggle(m.deleteSelected, m.deleteCursor)]}
    ELSE IF key = "enter" THEN
        IF DOMAIN m.deleteSelected = {}
        THEN {[m EXCEPT !.err = "noselect"]}
        ELSE {[m EXCEPT !.state = "confirm",
                        !.confirmAction =
                            [set |-> TRUE,
                             toDelete |-> collect(m.deleteSelected, m.deleteList, 0)]]}
    ELSE {m}

\* Enter opening the confirm view whatever is selected, with no action set up
handleDeleteKeysEnterUnguarded(m, key) ==
    IF key = "esc" THEN {[m EXCEPT !.state = "main"]}
    ELSE IF key = "up" THEN
        {IF m.deleteCursor > 0 THEN [m EXCEPT !.deleteCursor = @ - 1] ELSE m}
    ELSE IF key = "down" THEN
        {IF m.deleteCursor < Len(m.deleteList) - 1
         THEN [m EXCEPT !.deleteCursor = @ + 1] ELSE m}
    ELSE IF key = " " THEN
        {[m EXCEPT !.deleteSelected = toggle(m.deleteSelected, m.deleteCursor)]}
    ELSE IF key = "enter" THEN {[m EXCEPT !.state = "confirm"]}
    ELSE {m}

\* main.go:254-306
handleDeleteKeys(m, key) ==
    IF key = "esc" THEN {[m EXCEPT !.state = "main"]}
    ELSE IF key = "up" THEN
        {IF m.deleteCursor > 0 THEN [m EXCEPT !.deleteCursor = @ - 1] ELSE m}
    ELSE IF key = "down" THEN
        {IF m.deleteCursor < Len(m.deleteList) - 1
         THEN [m EXCEPT !.deleteCursor = @ + 1] ELSE m}
    ELSE IF key = " " THEN
        {[m EXCEPT !.deleteSelected = toggle(m.deleteSelected, m.deleteCursor)]}
    ELSE IF key = "enter" THEN
        IF DOMAIN m.deleteSelected = {}
        THEN {[m EXCEPT !.err = "noselect"]}
        ELSE {[m EXCEPT !.state = "confirm",
                        !.confirmAction =
                            [set |-> TRUE,
                             toDelete |-> collect(m.deleteSelected, m.deleteList, 0)]]}
    ELSE {m}

\* main.go:296-301   the closure: DeleteCities(toDelete), then Save
runConfirmAction(m) ==
    LET deleted == DeleteCities(m.cfg, m.confirmAction.toDelete)
    IN  IF deleted.err # "nil" THEN {[m EXCEPT !.err = deleted.err, !.state = "main"]}
        ELSE UNION { IF sv.err # "nil"
                     THEN {[m EXCEPT !.cfg = deleted.cities, !.err = sv.err, !.state = "main"]}
                     ELSE reloadClocks([m EXCEPT !.cfg = deleted.cities, !.disk = sv.disk])
                     : sv \in Save(deleted.cities, m.disk) }

\* main.go:309-328
handleConfirmKeys(m, key) ==
    IF key = "y" THEN runConfirmAction(m)
    ELSE IF key \in {"n", "esc"} THEN {[m EXCEPT !.state = "main"]}
    ELSE {m}

\* main.go:168-180
handleKeyPress(m, key) ==
    IF m.state = "main" THEN handleMainKeys(m, key)
    ELSE IF m.state = "add" THEN handleAddKeys(m, key)
    ELSE IF m.state = "delete" THEN handleDeleteKeys(m, key)
    ELSE handleConfirmKeys(m, key)

\* the keys that are letters, with their rune
RuneKeys == {"a", "b", "e", "r"}
RuneOf(key) ==
    IF key = "a" THEN 97 ELSE IF key = "b" THEN 98 ELSE IF key = "e" THEN 101 ELSE 114

\* textinput.Update(msg): a letter is appended, Backspace removes the last
\* rune, every other message leaves the value
inputUpdate(value, msg) ==
    IF msg \in RuneKeys THEN Append(value, RuneOf(msg))
    ELSE IF msg = "backspace" /\ value # <<>> THEN SubSeq(value, 1, Len(value) - 1)
    ELSE value

\* the results refreshed without the reset of the selection
updateAddViewKeepsSelection(m, msg) ==
    IF m.state # "add" THEN m
    ELSE IF m.justEnteredAddMode THEN [m EXCEPT !.justEnteredAddMode = FALSE]
    ELSE LET value == inputUpdate(m.searchInput, msg)
             found == Search(cities, ready, value, SearchLimit)
         IN  IF IsReady(ready)
             THEN [m EXCEPT !.searchInput = value, !.searchResults = found]
             ELSE [m EXCEPT !.searchInput = value]

\* main.go:136-156   the add view's part of Update, after the switch on msg
updateAddView(m, msg) ==
    IF m.state # "add" THEN m
    ELSE IF m.justEnteredAddMode THEN [m EXCEPT !.justEnteredAddMode = FALSE]
    ELSE LET value == inputUpdate(m.searchInput, msg)
             found == Search(cities, ready, value, SearchLimit)
         IN  IF IsReady(ready)
             THEN [m EXCEPT !.searchInput = value, !.searchResults = found,
                            !.selectedResult = IF @ >= Len(found) THEN 0 ELSE @]
             ELSE [m EXCEPT !.searchInput = value]

Keys ==
    {"q", "ctrl+c", "a", "d", "esc", "up", "down", "enter", " ", "y", "n", "backspace",
     "b", "e", "r"}
\* tea.KeyMsg and the timer messages (tickMsg, spinnerTickMsg)
Msgs == Keys \cup {"tick"}

\* what the user types into the search field: "bera", with corrections
TypedText == <<98, 101, 114, 97>>
Typed(value) == Len(value) <= Len(TypedText) /\ value = SubSeq(TypedText, 1, Len(value))

\* main.go:86-165   Update(msg).  IsReady and Search take RLock, so an
\* Update that reaches them waits while a loader holds or awaits the lock.
Update(msg) ==
    /\ lpc[1] # "idle" /\ ~quitting
    /\ \E m1 \in (IF msg \in Keys THEN handleKeyPress(M, msg) ELSE {M}) :
          LET m2 == updateAddView(m1, msg)
          IN  /\ ((uiState = "main" /\ msg = "a") \/ (m1.state = "add" /\ ~m1.justEnteredAddMode))
                    => (mu.writer = 0 /\ mu.pending = 0)
              /\ Typed(m2.searchInput)
              /\ uiState' = m2.state
              /\ uiErr' = m2.err
              /\ quitting' = m2.quitting
              /\ clocks' = m2.clocks
              /\ searchInput' = m2.searchInput
              /\ searchResults' = m2.searchResults
              /\ selectedResult' = m2.selectedResult
              /\ justEnteredAddMode' = m2.justEnteredAddMode
              /\ deleteList' = m2.deleteList
              /\ deleteSelected' = m2.deleteSelected
              /\ deleteCursor' = m2.deleteCursor
              /\ confirmAction' = m2.confirmAction
              /\ cfgCities' = m2.cfg
              /\ diskCities' = m2.disk
    /\ UNCHANGED <<dbVars, loadVars, fsVars, readerVars, searchVars, cfgCall, saveVars, pollVars>>

\* The add flow: the load runs and the readiness poll calls the accessors
\* while the user works in the main and the add view (every key but those
\* that open and drive the delete view).
AddMsgs == Msgs \ {"d", " ", "y", "n"}

\* main.go:745-795   main(): the configuration is loaded and the database
\* created; the cache file is absent or was left by an earlier run
\* a city east of every city of the catalog
ZurEast == [Name |-> cZur.Name, Timezone |-> cZur.Timezone]
AddConfigs == InitConfigs \cup {<<ZurEast>>}

InitAddView ==
    /\ InitDatabase
    /\ fsTarget \in {NoFile, File(DataFile)}
    /\ fsDir \in (IF fsTarget.exists THEN {TRUE} ELSE BOOLEAN)
    /\ fsZip = "absent"
    /\ \E cfg \in AddConfigs : AppStart(cfg)

NextAddView ==
    \/ LoadAsync(1)
    \/ LoadStep(1)
    \/ \E o \in PollOps : ReaderCall(UICaller, o)
    \/ ReaderReturn(UICaller)
    \/ \E msg \in AddMsgs : Update(msg)

SpecAddView == InitAddView /\ [][NextAddView]_vars

\* The delete flow: the user works in the main, delete and confirm views
\* (every key but those of the add view) while the load has been started and
\* has not got anywhere yet.
DeleteMsgs == Msgs \ ({"a", "backspace"} \cup RuneKeys)

\* a second city named "Ber", in the zone of the machine
BerHere == [Name |-> cBer.Name, Timezone |-> SystemTimezone]

DeleteConfigs == InitConfigs \cup {<<LocalCity, BerWest, BerHere>>}

InitDeleteView ==
    /\ cities = <<>>
    /\ ready = FALSE
    /\ err = "nil"
    /\ mu = [writer |-> 0, readers |-> {}, pending |-> 0]
    /\ lpc = [l \in Loaders |-> IF l = 1 THEN "start" ELSE "idle"]
    /\ lerr = [l \in Loaders |-> "nil"]
    /\ lcities = [l \in Loaders |-> <<>>]
    /\ lofs = [l \in Loaders |-> 0]
    /\ lhit = [l \in Loaders |-> FALSE]
    /\ lnet = [l \in Loaders |-> FALSE]
    /\ lwrote = [l \in Loaders |-> FALSE]
    /\ IdleReaders
    /\ NoSearch
    /\ fsDir = TRUE /\ fsZip = "absent" /\ fsTarget = NoFile
    /\ \E cfg \in DeleteConfigs : AppStart(cfg)

NextDeleteView == \E msg \in DeleteMsgs : Update(msg)

SpecDeleteView == InitDeleteView /\ [][NextDeleteView]_vars

(***************************************************************************)
(* The readiness poll (main.go:589-603), the command Init() starts          *)
(* (main.go:77-83): it calls IsReady and GetError in turn, PollLimit times  *)
(* at most, and returns one message, which Update handles                   *)
(* (main.go:122-128).  The time.Sleep of each iteration is any delay.       *)
(***************************************************************************)
PollOp == [op |-> IF ppc = "isready" THEN "IsReady" ELSE "GetError"]

\* main.go:593, 596   db.IsReady() or db.GetError() called: RLock
PollCall ==
    /\ ppc \in {"isready", "geterror"}
    /\ rpc[UICaller] = "idle"
    /\ mu.writer = 0 /\ mu.pending = 0
    /\ mu' = [mu EXCEPT !.readers = @ \cup {UICaller}]
    /\ rpc' = [rpc EXCEPT ![UICaller] = "in"]
    /\ rop' = [rop EXCEPT ![UICaller] = PollOp]
    /\ UNCHANGED <<cities, ready, err, loadVars, fsVars, robs, searchVars, cfgVars, uiVars,
                   saveVars, pollVars>>

\* the message after the loop, when the call that just returned nil ended
\* iteration number n (main.go:591, 600)
AfterIteration(n) ==
    IF n >= PollLimit
    THEN [pc |-> "returned", msg |-> [type |-> "geonamesErrorMsg", err |-> "timeout"]]
    ELSE [pc |-> "isready", msg |-> NoMsg]

\* main.go:593-598   the accessor returns (RUnlock) and the poll acts on
\* the value
PollReturn ==
    /\ ppc \in {"isready", "geterror"}
    /\ rpc[UICaller] = "in"
    /\ robs' = [robs EXCEPT ![UICaller] =
          IF ppc = "isready" THEN [op |-> "IsReady", val |-> IsReady(ready)]
          ELSE [op |-> "GetError", val |-> GetError(err)]]
    /\ mu' = [mu EXCEPT !.readers = @ \ {UICaller}]
    /\ rpc' = [rpc EXCEPT ![UICaller] = "idle"]
    /\ rop' = [rop EXCEPT ![UICaller] = NoOp]
    /\ IF ppc = "isready"
       THEN IF IsReady(ready)
            THEN /\ ppc' = "returned"
                 /\ pollMsg' = [type |-> "geonamesReadyMsg"]
                 /\ UNCHANGED polls
            ELSE /\ ppc' = "geterror"
                 /\ UNCHANGED <<pollMsg, polls>>
       ELSE IF GetError(err) # "nil"
            THEN /\ ppc' = "returned"
                 /\ pollMsg' = [type |-> "geonamesErrorMsg", err |-> GetError(err)]
                 /\ UNCHANGED polls
            ELSE /\ polls' = polls + 1
                 /\ ppc' = AfterIteration(polls + 1).pc
                 /\ pollMsg' = AfterIteration(polls + 1).msg
    /\ UNCHANGED <<cities, ready, err, loadVars, fsVars, searchVars, cfgVars, uiVars,
                   saveVars, pollHandled, geonamesReady>>

\* main.go:86-165   Update(msg) for the message of the poll
UpdatePollMsg ==
    /\ pollMsg # NoMsg /\ ~quitting
    /\ LET m1 == IF pollMsg.type = "geonamesErrorMsg" THEN [M EXCEPT !.err = pollMsg.err] ELSE M
           m2 == updateAddView(m1, pollMsg.type)
       IN  /\ (m1.state = "add" /\ ~m1.justEnteredAddMode) => (mu.writer = 0 /\ mu.pending = 0)
           /\ uiState' = m2.state
           /\ uiErr' = m2.err
           /\ searchInput' = m2.searchInput
           /\ searchResults' = m2.searchResults
           /\ selectedResult' = m2.selectedResult
           /\ justEnteredAddMode' = m2.justEnteredAddMode
    /\ geonamesReady' = TRUE
    /\ pollHandled' = pollHandled + 1
    /\ pollMsg' = NoMsg
    /\ UNCHANGED <<dbVars, loadVars, fsVars, readerVars, searchVars, cfgVars, saveVars,
                   quitting, clocks, deleteList, deleteSelected, deleteCursor, confirmAction,
                   ppc, polls>>

\* main() has called LoadAsync and started the program (main.go:768-790)
InitPoll ==
    /\ cities = <<>>
    /\ ready = FALSE
    /\ err = "nil"
    /\ mu = [writer |-> 0, readers |-> {}, pending |-> 0]
    /\ lpc = [l \in Loaders |-> IF l = 1 THEN "start" ELSE "idle"]
    /\ lerr = [l \in Loaders |-> "nil"]
    /\ lcities = [l \in Loaders |-> <<>>]
    /\ lofs = [l \in Loaders |-> 0]
    /\ lhit = [l \in Loaders |-> FALSE]
    /\ lnet = [l \in Loaders |-> FALSE]
    /\ lwrote = [l \in Loaders |-> FALSE]
    /\ IdleReaders
    /\ NoSearch
    /\ fsTarget \in {NoFile, File(DataFile)}
    /\ fsDir \in (IF fsTarget.exists THEN {TRUE} ELSE BOOLEAN)
    /\ fsZip = "absent"
    /\ AppStart(DefaultConfig)

NextPoll == LoadStep(1) \/ PollCall \/ PollReturn \/ UpdatePollMsg

\* The scheduling: the loader goroutine and the poll goroutine keep being
\* scheduled, each I/O step and each sleep returns, and the program hands
\* the command's message to Update.
FairnessPoll ==
    /\ WF_vars(LoadStep(1))
    /\ WF_vars(PollCall)
    /\ WF_vars(PollReturn)
    /\ WF_vars(UpdatePollMsg)

SpecPoll == InitPoll /\ [][NextPoll]_vars /\ FairnessPoll

(***************************************************************************)
(* parseFile on its own (geonames.go:233-277): the file is drawn from the   *)
(* sequences of at most MaxLines lines over rows of 19, 18 and 17 fields,   *)
(* a row with an empty timezone, a short row and an empty line; the one     *)
(* step is load()'s call of parseFile.                                      *)
(***************************************************************************)
\* a row of n fields for a city; the other columns hold "x"
RowOfWidth(city, n) ==
    JoinTab([k \in 1..n |->
        IF k = NameField + 1 THEN city.Name
        ELSE IF k = CountryField + 1 THEN city.CountryCode
        ELSE IF k = TimezoneField + 1 THEN city.Timezone
        ELSE <<120>>])

cNoZone == [Name |-> <<78, 111>>, CountryCode |-> <<78, 79>>, Timezone |-> <<>>]

ParseRows ==
    { RowOf(cBer), RowOfWidth(cZur, MinFields), RowOfWidth(cAber, MinFields - 1),
      RowOf(cNoZone), ShortRow, <<>> }

ParseFiles == SeqsUpTo(ParseRows, MaxLines)

InitParse ==
    /\ cities = <<>>
    /\ ready = FALSE
    /\ err = "nil"
    /\ mu = [writer |-> 0, readers |-> {}, pending |-> 0]
    /\ lpc = [l \in Loaders |-> IF l = 1 THEN "parse" ELSE "idle"]
    /\ lerr = [l \in Loaders |-> "nil"]
    /\ lcities = [l \in Loaders |-> <<>>]
    /\ lofs = [l \in Loaders |-> 0]
    /\ lhit = [l \in Loaders |-> TRUE]
    /\ lnet = [l \in Loaders |-> FALSE]
    /\ lwrote = [l \in Loaders |-> FALSE]
    /\ IdleReaders
    /\ fsTarget \in {File(f) : f \in ParseFiles}
    /\ fsDir = TRUE
    /\ fsZip = "absent"
    /\ NoSearch
    /\ AppStart(DefaultConfig)

NextParse == Parse(1)

SpecParse == InitParse /\ [][NextParse]_vars

(***************************************************************************)
(* Claims about the load and its readers, checked under Spec.              *)
(***************************************************************************)
\* the catalogs a complete parse of a complete file yields
FullCatalogs == {parseFile(DataFile), parseFile(OldFile)}

\* the pre-load state, or the fully loaded state
PreLoadOrLoaded ==
    \/ ~ready /\ cities = <<>>
    \/ ready /\ fsTarget.exists /\ cities = parseFile(fsTarget.lines) /\ cities \in FullCatalogs

\* some load has executed its install (geonames.go:78-79)
Installed == \E l \in Loaders : lpc[l] \in {"unlock", "done"} /\ lerr[l] = "nil"

\* the errors downloadAndExtract returns, by the step that failed
FetchErrors ==
    {"mkdir", "get", "status", "createzip", "copyzip",
     "openzip", "noentry", "openentry", "createtarget", "copytarget"}

\* C1: with one background load and any readers, whenever a reader is
\* inside IsReady, GetError or Search the database is in the pre-load state
\* (ready=false, no records) or the fully loaded state (ready=true, the
\* complete parse), and what a Search returned is the result on one of the
\* two.
C1_ReadersSeeAllOrNothing ==
    /\ \A r \in Readers : rpc[r] = "in" => PreLoadOrLoaded
    /\ \A r \in Readers :
          robs[r].op = "Search" =>
            \/ robs[r].val = <<>>
            \/ \E c \in FullCatalogs : robs[r].val = Search(c, TRUE, ReaderQuery, MaxLimit)

\* C1 witness: a reader that got an empty result during the load is inside
\* an accessor again after a download was parsed and installed.
C1_Witness ==
    \E r \in Readers :
        /\ rpc[r] = "in" /\ robs[r] = [op |-> "Search", val |-> <<>>]
        /\ ready /\ cities = parseFile(DataFile) /\ ~lhit[1]

\* C2: after the single load has terminated, exactly one of ready=true and
\* err#nil holds.
C2_ExactlyOneTerminalState ==
    \A l \in Loaders : lpc[l] = "done" => (ready # (err # "nil"))

\* C2 witness: the load has terminated in the error state.
C2_Witness == lpc[1] = "done" /\ err = "copytarget" /\ ~ready

\* C3: until a load executes its install, IsReady is false, GetError is nil
\* unless the load has failed, and Search returns the empty sequence for
\* every query and limit; so is every value a caller has been given.
C3_EmptyUntilInstall ==
    ~Installed =>
        /\ IsReady(ready) = FALSE
        /\ GetError(err) # "nil" => \E l \in Loaders : lpc[l] = "done" /\ lerr[l] = err
        /\ \A q \in Queries, n \in Limits :
              Search(cities, ready, q, n) = <<>> /\ ~SearchPanics(cities, ready, q, n)
        /\ \A r \in Readers :
              \/ robs[r] = NoOp
              \/ robs[r] = [op |-> "IsReady", val |-> FALSE]
              \/ robs[r].op = "GetError" /\ robs[r].val \in {"nil", err}
              \/ robs[r] = [op |-> "Search", val |-> <<>>]

\* C3 witness: a caller is inside an accessor, after an empty Search, while
\* the extraction is half way through the file.
C3_Witness ==
    \E r \in Readers :
        /\ rpc[r] = "in" /\ robs[r] = [op |-> "Search", val |-> <<>>]
        /\ lpc[1] = "copytarget" /\ lofs[1] = 1

\* C9: a load that found the cache file present when it started makes no
\* network call and no write to the cache directory, never enters the
\* download or extraction steps, and parses the file as it is, stale or not.
C9_CacheHitNoFetch ==
    \A l \in Loaders :
        lhit[l] =>
            /\ ~lnet[l] /\ ~lwrote[l]
            /\ lpc[l] \in {"stat", "parse", "lock", "setcities", "setready", "unlock",
                            "fail", "seterr", "done"}
            /\ fsZip = "absent"
            /\ fsTarget \in {File(DataFile), File(OldFile)}
            /\ lpc[l] \in {"lock", "setcities", "setready", "unlock"}
                  => lcities[l] = parseFile(fsTarget.lines)

\* C9 witness: a load on a stale cache file has installed its records.
C9_Witness ==
    /\ lhit[1] /\ lpc[1] = "done" /\ ready
    /\ fsTarget = File(OldFile) /\ cities = parseFile(OldFile)

\* C10 (as claimed): once downloadAndExtract has failed, at whatever step,
\* no file exists at the target cache path if none existed before.
C10_FailedFetchLeavesNoTarget ==
    \A l \in Loaders :
        (lpc[l] \in {"fail", "seterr", "done"} /\ lerr[l] \in FetchErrors /\ ~lhit[l])
            => ~fsTarget.exists

\* the positions of load() outside downloadAndExtract
OutsideFetch ==
    {"idle", "start", "stat", "parse", "lock", "setcities", "setready", "unlock",
     "fail", "seterr", "done"}

\* the errors parseFile returns
ParseErrors == {"openfile", "scan"}

\* C11 (as claimed): once downloadAndExtract has returned, with or without
\* an error, the temporary archive cities15000.zip is gone.
C11_TempArchiveRemoved ==
    (\A l \in Loaders : lpc[l] \in OutsideFetch) => fsZip = "absent"

\* C12: a load whose fetch failed ends with err set to that error, ready
\* false and no records, and is never retried: from the failure on the
\* goroutine only stores the error and stops, makes no further network call,
\* and once it has stopped ready, err and the records no longer change.
C12_FailedFetchIsTerminal ==
    /\ [](\A l \in Loaders :
            (lpc[l] = "done" /\ lerr[l] \in FetchErrors)
                => (GetError(err) = lerr[l] /\ ~IsReady(ready) /\ cities = <<>>))
    /\ [][\A l \in Loaders :
            lerr[l] \in FetchErrors =>
                /\ lerr'[l] = lerr[l] /\ lnet'[l] = lnet[l]
                /\ lpc'[l] \in {"rmzip", "fail", "seterr", "done"}
                /\ lpc[l] = "done" =>
                      (lpc'[l] = "done" /\ err' = err /\ ready' = ready /\ cities' = cities)]_vars

\* C12 witness: the load has stopped after a missing archive entry and a
\* caller has been given the error.
C12_Witness ==
    /\ lpc[1] = "done" /\ err = "noentry" /\ ~ready /\ cities = <<>>
    /\ \E r \in Readers : robs[r] = [op |-> "GetError", val |-> "noentry"]

\* C14: when parsing fails parseFile hands back no records and the load
\* installs nothing: ready stays false and the records stay empty, every
\* step the load takes after the failure leaves them as they were, and the
\* load ends with err set.
C14_FailedParseInstallsNothing ==
    /\ [](\A l \in Loaders :
            lerr[l] \in ParseErrors =>
                /\ lcities[l] = <<>>
                /\ ~ready /\ cities = <<>>
                /\ lpc[l] \in {"fail", "seterr", "done"}
                /\ lpc[l] = "done" => err = lerr[l])
    /\ [][\A l \in Loaders :
            (lerr[l] \in ParseErrors /\ lpc'[l] # lpc[l])
                => (cities' = cities /\ ready' = ready)]_vars

\* C14 witness: the load has ended on a read error in a file whose lines
\* parse to records, none of which was installed.
C14_Witness ==
    /\ lpc[1] = "done" /\ lerr[1] = "scan" /\ err = "scan"
    /\ fsTarget.exists /\ parseFile(fsTarget.lines) # <<>>
    /\ ~ready /\ cities = <<>>

\* the positions at which load() and LoadAsync hold the write lock
LockedSteps == {"setcities", "setready", "unlock", "seterr"}

\* C15: LoadAsync is enabled whatever the database is doing; the write lock
\* is held only in the install step and the error-store step and requested
\* only right before them, so while a load fetches or parses every idle
\* caller can enter IsReady, GetError and Search at once.
C15_LockOnlyAroundInstall ==
    /\ \A l \in Loaders : lpc[l] = "idle" => ENABLED LoadAsync(l)
    /\ \A l \in Loaders : mu.writer = l => lpc[l] \in LockedSteps
    /\ \A l \in Loaders : mu.pending = l => lpc[l] \in {"lock", "fail"}
    /\ (\A l \in Loaders : lpc[l] \notin LockedSteps \cup {"lock", "fail"}) =>
          /\ mu.writer = 0 /\ mu.pending = 0
          /\ \A r \in Readers : rpc[r] = "idle" =>
                \A o \in ReaderOps : ENABLED ReaderCall(r, o)

\* C15 witness: a caller is inside Search while the download is being
\* copied to the temporary archive.
C15_Witness ==
    /\ lpc[1] = "copyzip"
    /\ \E r \in Readers : rpc[r] = "in" /\ rop[r].op = "Search"

\* C16: under the fair scheduling, a load that was started ends with ready
\* true or err set, whatever the callers do; and no step of a caller moves
\* the loader or changes what it has fetched or parsed.
C16_LoadTerminates ==
    /\ (lpc[1] # "idle") ~> (lpc[1] = "done" /\ (ready \/ err # "nil"))
    /\ [][(\E r \in Readers : rpc'[r] # rpc[r]) => loadVars' = loadVars]_vars

\* C16 witness: the load has ended in its terminal state while a caller was
\* inside an accessor.
C16_Witness ==
    /\ lpc[1] = "done" /\ (ready \/ err # "nil")
    /\ rpc[UICaller] = "in"

\* C17: the accessors are read-only and do not raise: a step of a caller
\* leaves ready, err and the records unchanged, err changes only in the
\* error-store step of a load, and no Search with a limit >= 0 panics,
\* whatever the query and the catalog state.
C17_AccessorsReadOnly ==
    /\ [](\A q \in Queries, n \in 0..MaxLimit : ~SearchPanics(cities, ready, q, n))
    /\ [][/\ ((\E r \in Readers : rpc'[r] # rpc[r])
                => (cities' = cities /\ ready' = ready /\ err' = err))
           /\ (err' # err => \E l \in Loaders : lpc[l] = "seterr" /\ lpc'[l] = "done")]_vars

\* C17 witness: callers have searched before and after the install.
C17_Witness ==
    /\ ready /\ lpc[1] = "done"
    /\ \E r \in Readers : robs[r] = [op |-> "Search", val |-> <<>>]
    /\ \E r \in Readers :
          robs[r] = [op |-> "Search", val |-> Search(cities, TRUE, ReaderQuery, MaxLimit)]
             /\ robs[r].val # <<>>

(***************************************************************************)
(* Claims about Search, checked under SpecSearch.                          *)
(***************************************************************************)
\* the trimmed, lower-cased form of a query as the documentation defines it
Fold(q) == ToLower(TrimSpace(q))

Range(f) == {f[k] : k \in 1..Len(f)}

ExactIdx(cs, q) == {i \in 1..Len(cs) : ToLower(cs[i].Name) = q}
MatchIdx(cs, q) == {i \in 1..Len(cs) : Contains(ToLower(cs[i].Name), q)}

\* C4 (as claimed): a query whose trimmed, lower-cased form has fewer than 3
\* characters, counted as characters and not as bytes, gets an empty result
\* whatever the catalog state and the limit.
C4_ShortQueryByCharacters ==
    (called /\ CharLen(Fold(query)) < MinQueryLen) => results = <<>>

\* C5: in every returned sequence the exact matches come before the
\* prefix-or-contains matches, each group is in catalog order, and the
\* sequence holds the catalog's records at the returned positions.
C5_ExactFirstCatalogOrder ==
    called =>
        /\ Len(results) = Len(resultIdx)
        /\ \A k \in 1..Len(resultIdx) :
              resultIdx[k] \in MatchIdx(cities, Fold(query)) /\ results[k] = cities[resultIdx[k]]
        /\ \A i, j \in 1..Len(resultIdx) :
              i < j =>
                /\ resultIdx[j] \in ExactIdx(cities, Fold(query))
                      => resultIdx[i] \in ExactIdx(cities, Fold(query))
                /\ (resultIdx[i] \in ExactIdx(cities, Fold(query)))
                      = (resultIdx[j] \in ExactIdx(cities, Fold(query)))
                      => resultIdx[i] < resultIdx[j]

\* C5 witness: a partial match that precedes an exact match in the catalog
\* is returned after it.
C5_Witness ==
    /\ called /\ Len(resultIdx) = 2
    /\ resultIdx[1] > resultIdx[2]
    /\ resultIdx[1] \in ExactIdx(cities, Fold(query))
    /\ resultIdx[2] \notin ExactIdx(cities, Fold(query))

\* C6 (as claimed): for every catalog order and every limit >= 1, no
\* prefix/contains match is returned while a record that matches the query
\* exactly is omitted.
C6_ExactNeverOmittedForPartial ==
    (called /\ ready /\ maxResults >= 1) =>
        ((\E e \in ExactIdx(cities, Fold(query)) : e \notin Range(resultIdx))
            => \A k \in 1..Len(resultIdx) : resultIdx[k] \in ExactIdx(cities, Fold(query)))

\* C6 (amended): for every limit >= 1, an exact match is omitted only when
\* the limit was reached before the scan got to it: the result then has
\* exactly limit entries and every returned record precedes the omitted
\* exact match in the catalog.
C6_ExactOmittedOnlyAfterStop ==
    (called /\ ready /\ maxResults >= 1 /\ ~TooShort(Fold(query))) =>
        \A e \in ExactIdx(cities, Fold(query)) :
            e \notin Range(resultIdx) =>
                /\ Len(resultIdx) = maxResults
                /\ \A k \in 1..Len(resultIdx) : resultIdx[k] < e

\* C6 witness: a partial match is returned and a later exact match omitted.
C6_Witness ==
    /\ called /\ ready /\ maxResults >= 1
    /\ \E e \in ExactIdx(cities, Fold(query)) : e \notin Range(resultIdx)
    /\ \E k \in 1..Len(resultIdx) : resultIdx[k] \notin ExactIdx(cities, Fold(query))

\* C7: for every catalog, query and limit >= 0 the returned sequence has at
\* most limit entries.
C7_AtMostLimit ==
    (called /\ maxResults >= 0) => Len(results) <= maxResults

\* C7 witness: limit 0 on a ready catalog whose first record matches, where
\* the scan collects one record and the final cut removes it.
C7_Witness ==
    /\ called /\ ready /\ maxResults = 0
    /\ ~TooShort(Fold(query))
    /\ Len(Combined(cities, Fold(query), maxResults)) = 1
    /\ results = <<>>

\* C8: two queries with the same trimmed, lower-cased form get identical
\* results on the same catalog and limit; names are compared lower-cased
\* and the returned records are the catalog's records, in their own case.
C8_CaseAndSpaceInsensitive ==
    called =>
        /\ \A q2 \in Queries :
              Fold(q2) = Fold(query) =>
                /\ Search(cities, ready, q2, maxResults) = results
                /\ SearchPanics(cities, ready, q2, maxResults) = panicked
        /\ \A k \in 1..Len(results) :
              /\ results[k] = cities[resultIdx[k]]
              /\ Contains(ToLower(results[k].Name), Fold(query))

\* C8 witness: " Ber<tab>" finds the record named "BER", returned in upper
\* case.
C8_Witness ==
    /\ called /\ query = <<32, 66, 101, 114, 9>>
    /\ \E k \in 1..Len(results) : results[k] = cBER

(***************************************************************************)
(* Claims about parseFile, checked under SpecParse.  The expected records  *)
(* are read off the line by the positions of its tabs.                     *)
(***************************************************************************)
TabPos(line) == {i \in 1..Len(line) : line[i] = 9}

\* the position of the k-th tab of the line, 0 for k = 0 and one past the
\* end when the line has fewer tabs
NthTab(line, k) ==
    IF k = 0 THEN 0
    ELSE IF k > Cardinality(TabPos(line)) THEN Len(line) + 1
    ELSE CHOOSE i \in TabPos(line) : Cardinality({j \in TabPos(line) : j <= i}) = k

\* field k of the line, counted from 0
FieldAt(line, k) == SubSeq(line, NthTab(line, k) + 1, NthTab(line, k + 1) - 1)

\* at least 18 fields is at least 17 tabs
KeptLine(line) ==
    /\ Cardinality(TabPos(line)) >= 17
    /\ FieldAt(line, 17) # <<>>

ExpectedCities(lines) ==
    LET kept == SelectSeq(lines, KeptLine)
    IN  [i \in 1..Len(kept) |->
            [Name |-> FieldAt(kept[i], 1),
             CountryCode |-> FieldAt(kept[i], 8),
             Timezone |-> FieldAt(kept[i], 17)]]

\* C13: parseFile returns, in file order, one City per line with at least
\* 18 tab-separated fields and a non-empty field 17, made of fields 1, 8 and
\* 17; the other lines are skipped with no error, and a line that occurs
\* twice gives two records.
C13_ParseKeepsWellFormedLines ==
    lpc[1] = "lock" =>
        /\ lerr[1] = "nil"
        /\ lcities[1] = ExpectedCities(fsTarget.lines)

\* C13 witness: a file of a line with exactly 18 fields and a line with 17
\* has been parsed to the one record, and a file with the same line twice
\* to two records.
C13_Witness ==
    /\ lpc[1] = "lock" /\ lerr[1] = "nil"
    /\ \/ /\ fsTarget.lines = <<RowOfWidth(cZur, MinFields), RowOfWidth(cAber, MinFields - 1)>>
          /\ lcities[1] = <<cZur>>
       \/ /\ fsTarget.lines = <<RowOf(cBer), RowOf(cBer)>>
          /\ lcities[1] = <<cBer, cBer>>

(***************************************************************************)
(* Claims about the UI, checked under SpecAddView and SpecDeleteView.      *)
(***************************************************************************)
\* C18: the UI is in the add view only while the database is ready; no step
\* taken in the main view while it is not ready enters the add view, and the
\* search results change only while it is ready.
C18_AddViewOnlyWhenReady ==
    /\ [](uiState = "add" => IsReady(ready))
    /\ [][/\ ((uiState = "main" /\ ~ready) => uiState' = "main")
           /\ (searchResults' # searchResults => ready)]_vars

\* C18 witness: the load has installed its records and the add view shows
\* the results of a search.
C18_Witness ==
    /\ uiState = "add" /\ ready /\ ~quitting
    /\ searchInput = <<98, 101, 114>> /\ searchResults = <<cBer, cBera>>

\* the configured cities in the zone of the machine
Protected(cs) == {i \in 1..Len(cs) : cs[i].Timezone = SystemTimezone}

\* C19 (as claimed): no key in the delete or the confirm view removes from
\* the configuration a city in the system's zone.
C19_ProtectedCitiesKept ==
    [][\A i \in Protected(cfgCities) :
        \E j \in 1..Len(cfgCities') : cfgCities'[j] = cfgCities[i]]_vars

(***************************************************************************)
(* Claims about the Config methods, checked under SpecConfig.              *)
(***************************************************************************)
\* C20: the configuration always keeps at least one city; a DeleteCities
\* call whose names cover every configured city returns an error and leaves
\* Cities as it was, and any other DeleteCities call returns no error.
C20_AtLeastOneCity ==
    /\ [](Len(cfgCities) >= 1)
    /\ [][cfgCall'.op = "DeleteCities" =>
            IF \A i \in 1..Len(cfgCities) :
                    \E k \in 1..Len(cfgCall'.names) : cfgCall'.names[k] = cfgCities[i].Name
            THEN cfgCall'.err # "nil" /\ cfgCities' = cfgCities
            ELSE cfgCall'.err = "nil"]_vars

\* C20 witness: cities were added and a call naming all of them was refused.
C20_Witness ==
    /\ Len(cfgCities) >= 3
    /\ cfgCall.op = "DeleteCities" /\ cfgCall.err = "deleteall"

\* the zone names time.LoadLocation rejects
UnknownZone(tz) == tz # <<>> /\ tz \notin ValidZones

FirstMatches(cs, q, n) ==
    {i \in MatchIdx(cs, q) : Cardinality({j \in MatchIdx(cs, q) : j < i}) < n}

\* C24: on a ready catalog, for a query whose trimmed, lower-cased form has
\* at least 3 characters and a limit >= 1, Search returns each of the first
\* min(limit, M) matching records of the catalog once and nothing else, the
\* exact matches before the others and each group in catalog order.
C24_FirstMatchesExactFirst ==
    (called /\ ready /\ CharLen(Fold(query)) >= MinQueryLen /\ maxResults >= 1) =>
        LET first == FirstMatches(cities, Fold(query), maxResults)
            exact == ExactIdx(cities, Fold(query))
        IN  /\ ~panicked
            /\ Range(resultIdx) = first
            /\ Len(resultIdx) = Cardinality(first)
            /\ Len(results) = Len(resultIdx)
            /\ \A k \in 1..Len(resultIdx) : results[k] = cities[resultIdx[k]]
            /\ \A i, j \in 1..Len(resultIdx) :
                  i < j => \/ resultIdx[i] \in exact /\ resultIdx[j] \notin exact
                           \/ /\ (resultIdx[i] \in exact) = (resultIdx[j] \in exact)
                              /\ resultIdx[i] < resultIdx[j]

\* C24 witness: three records match and the limit is 2; the second record,
\* an exact match, is returned before the first, which only contains the
\* query, and the third is not returned.
C24_Witness ==
    /\ called /\ ready /\ maxResults = 2
    /\ CharLen(Fold(query)) >= MinQueryLen
    /\ Cardinality(MatchIdx(cities, Fold(query))) = 3
    /\ resultIdx = <<2, 1>>
    /\ ~HasPrefix(ToLower(cities[1].Name), Fold(query))

\* C25 (as claimed): on a ready catalog, for a query whose trimmed,
\* lower-cased form has at least 3 characters, Search returns without a
\* panic for every limit, and returns the empty sequence when the limit is
\* 0 or negative.
C25_ReturnsForEveryLimit ==
    (called /\ ready /\ CharLen(Fold(query)) >= MinQueryLen) =>
        /\ ~panicked
        /\ (maxResults <= 0 => results = <<>>)

(***************************************************************************)
(* Claims about Config.Save, checked under SpecSave.                       *)
(***************************************************************************)
\* C22: the config file changes only in the rename of a temporary file that
\* holds the whole of a configuration that passes Validate, and that Save
\* returns no error; a Save that returns an error has left the file as it
\* was; once Save has returned no temporary file is left; the file never
\* holds a configuration that fails Validate.
C22_SaveIsAtomic ==
    /\ [](spc \in {"idle", "done"} => ~stmp.exists)
    /\ [](Len(diskCities) >= 1 /\ \A i \in 1..Len(diskCities) :
            /\ diskCities[i].Name # <<>>
            /\ diskCities[i].Timezone \in ValidZones)
    /\ [](serr # "nil" => spc \in {"remove", "done"})
    /\ [][/\ (diskCities' # diskCities =>
                /\ spc = "rename" /\ spc' = "done" /\ serr' = "nil"
                /\ stmp.exists /\ stmp.complete /\ stmp.cities = cfgCities
                /\ diskCities' = cfgCities)
           /\ (serr # "nil" /\ spc # "done" => diskCities' = diskCities)
           /\ (serr' # "nil" => diskCities' = diskCities)]_vars

\* C22 witness: a Save was refused for a configuration that fails Validate
\* after an earlier Save had replaced the file.
C22_Witness ==
    /\ spc = "done" /\ serr = "invalid"
    /\ diskCities = <<BerWest>> /\ cfgCities = <<LocalCity, NoZoneCity>>
    /\ ~stmp.exists

\* C22 witness of a failure with the temporary file written: the rename
\* failed, the file is as it was and the temporary file is gone.
C22_WitnessRename ==
    /\ spc = "done" /\ serr = "rename" /\ ~stmp.exists /\ diskCities # cfgCities

(***************************************************************************)
(* Claims about the clock list, checked under SpecAddView.                 *)
(***************************************************************************)
WestToEast(cl) ==
    \A i, j \in 1..Len(cl) : i < j => UTCOffsetOf(cl[i].Timezone) <= UTCOffsetOf(cl[j].Timezone)

Occurrences(seq, x) == Cardinality({i \in 1..Len(seq) : seq[i] = x})

OneClockPerCity(cl, cs) ==
    /\ Len(cl) = Len(cs)
    /\ \A i \in 1..Len(cs) : Occurrences(cl, cs[i]) = Occurrences(cs, cs[i])

C26_TerminalStatesStable ==
    [][/\ (ready => ready')
       /\ (err # "nil" => err' # "nil")
       /\ (cities' # cities =>
              \E l \in Loaders :
                 /\ lpc[l] = "setcities" /\ lpc'[l] = "setready"
                 /\ mu.writer = l /\ lerr[l] = "nil"
                 /\ cities' = lcities[l])
       /\ (\A l \in Loaders : lpc[l] = "setready" => cities = lcities[l])
       /\ (\A l \in Loaders :
              (lerr[l] # "nil" /\ lpc'[l] # lpc[l]) => (cities' = cities /\ ready' = ready))]_vars

\* C26 witness: one load has installed records and another has failed and
\* stored its error afterwards; the records and ready are those of the
\* first.
C26_Witness ==
    /\ ready /\ cities # <<>> /\ err # "nil"
    /\ \A l \in Loaders : lpc[l] = "done"
    /\ \E l \in Loaders : lerr[l] = "nil" /\ cities = lcities[l]

\* C26 witness of a replacement: the records installed by one load have been
\* replaced by those of a later one.
C26_WitnessReplaced ==
    /\ ready /\ \A l \in Loaders : lpc[l] = "done" /\ lerr[l] = "nil"
    /\ \E l \in Loaders : cities # lcities[l]

\* a load is between os.Create of the target file and the end of io.Copy
Extracting(l) == lpc[l] = "copytarget"
\* the io.Copy of a load has failed part-way
CopyFailed(l) == lerr[l] = "copytarget"
\* load l is handed the records by parseFile in this step
ParseReturns(l) == lpc[l] = "parse" /\ lpc'[l] = "lock"
\* load l found the target file present: it has not been through MkdirAll
FoundCache(l) == ~lwrote[l]
WholeFiles == {DataFile, OldFile}

\* C27 (as claimed): a load that found the target file present does not
\* parse it while another load is extracting it, and parses a completely
\* written file.
C27_ParsesOnlyCompleteFile ==
    [][\A l \in Loaders :
          (ParseReturns(l) /\ FoundCache(l)) =>
              /\ \A l2 \in Loaders \ {l} : ~Extracting(l2)
              /\ (~\E l2 \in Loaders : CopyFailed(l2)) => fsTarget.lines \in WholeFiles]_vars

\* What holds instead: a load parses the target file as it stands at that
\* moment, without waiting for a load that is extracting it; what it is
\* handed is the records of a completely written file whenever no load is
\* extracting the file at that moment and no copy has failed part-way.
ParsesFileAsItStands ==
    [][\A l \in Loaders :
          ParseReturns(l) =>
              /\ lcities'[l] = parseLines(fsTarget.lines)
              /\ ((\A l2 \in Loaders : ~Extracting(l2) /\ ~CopyFailed(l2))
                    => (fsTarget.lines \in WholeFiles
                        /\ lcities'[l] \in {parseLines(f) : f \in WholeFiles}))]_vars

\* The outcome of the race: a load that found the file present has
\* installed, with ready = true, fewer records than the file holds once the
\* other load, which was extracting it, has finished without error.
PartialCatalogInstalled ==
    /\ ready /\ \A l \in Loaders : lpc[l] = "done" /\ lerr[l] = "nil"
    /\ fsTarget.lines = DataFile
    /\ \E l \in Loaders : FoundCache(l) /\ cities = lcities[l]
    /\ Len(cities) < Len(parseLines(DataFile))

(***************************************************************************)
(* Claims about the readiness poll, checked under SpecPoll.                *)
(***************************************************************************)
\* C28 (as claimed): Update handles exactly one message of the poll; an
\* error message is returned only when GetError is non-nil; a ready message
\* is returned only when the database is ready; and if the load succeeds,
\* the UI gets the ready message and never shows an error.
C28_PollReportsOutcome ==
    /\ [](pollHandled <= 1)
    /\ <>(pollHandled = 1)
    /\ [](pollMsg.type = "geonamesReadyMsg" => ready)
    /\ [](pollMsg.type = "geonamesErrorMsg" => err # "nil")
    /\ (<>ready) => (<>(geonamesReady /\ pollHandled = 1) /\ [](uiErr = "nil"))

\* the part of C28 that holds: one message at most, a ready message only
\* of a ready database, and an error message that is the error of the load
\* or the poll's own timeout.
PollReturnsOneMessage ==
    /\ [](pollHandled <= 1)
    /\ <>(pollHandled = 1)
    /\ [](pollMsg.type = "geonamesReadyMsg" => ready)
    /\ [](pollMsg.type = "geonamesErrorMsg" => pollMsg.err \in {err, "timeout"})

\* the poll has given up, Update shows its error, and the load has
\* succeeded afterwards
TimeoutShownAfterSuccess ==
    /\ ready /\ err = "nil" /\ lpc[1] = "done"
    /\ uiErr = "timeout" /\ geonamesReady /\ pollHandled = 1

(***************************************************************************)
(* Claims about the confirm view, checked under SpecDeleteView.            *)
(***************************************************************************)
\* C29: the confirm view is entered only from the delete view, by Enter,
\* with a non-empty selection map, and with the action set; whenever the
\* confirm view is shown the action is set; and 'n' or Esc in the confirm
\* view lead to the main view and leave the configuration in memory and on
\* disk, and the clocks, as they are.
C29_ConfirmHasAction ==
    /\ [](uiState = "confirm" => confirmAction.set)
    /\ [](uiState # "confirm" =>
            \A key \in Keys : \A m2 \in handleKeyPress(M, key) :
                updateAddView(m2, key).state = "confirm" =>
                    /\ uiState = "delete" /\ key = "enter"
                    /\ DOMAIN deleteSelected # {}
                    /\ m2.confirmAction.set)
    /\ [](uiState = "confirm" =>
            \A key \in {"n", "esc"} : \A m2 \in handleKeyPress(M, key) :
                /\ updateAddView(m2, key).state = "main"
                /\ m2.cfg = cfgCities /\ m2.disk = diskCities /\ m2.clocks = clocks
                /\ m2.err = uiErr)
    /\ [][(uiState # "confirm" /\ uiState' = "confirm") =>
              (uiState = "delete" /\ DOMAIN deleteSelected # {} /\ confirmAction'.set)]_vars
    /\ [][(uiState = "confirm" /\ cfgCities' # cfgCities) =>
              cfgCities' = DeleteCities(cfgCities, confirmAction.toDelete).cities]_vars

\* C29 witness: the confirm view is shown for the deletion of one of two
\* configured cities.
C29_Witness ==
    /\ uiState = "confirm" /\ confirmAction.set
    /\ Len(confirmAction.toDelete) = 1 /\ Len(cfgCities) = 2

\* C29 witness of a cancelled deletion: back in the main view with the
\* action still set up and every city still configured and shown.
C29_WitnessCancelled ==
    /\ uiState = "main" /\ uiErr = "nil" /\ confirmAction.set
    /\ Len(confirmAction.toDelete) = 1 /\ Len(cfgCities) = 2 /\ Len(clocks) = 2
    /\ diskCities = cfgCities

(***************************************************************************)
(* Claims about the add view's selection, checked under SpecAddView.       *)
(***************************************************************************)
\* C30: after every Update the selection index of the add view is not
\* negative and is below the number of results or 0, and the index Enter
\* would use is within the results whenever Enter uses it.
C30_SelectionInRange ==
    /\ selectedResult >= 0
    /\ (selectedResult < Len(searchResults) \/ selectedResult = 0)
    /\ (uiState = "add" /\ searchResults # <<>>) => (selectedResult + 1 \in DOMAIN searchResults)

\* C30 witness: the selection is on the second of two results and one more
\* typed letter will leave a single result.
C30_Witness ==
    /\ uiState = "add" /\ selectedResult = 1 /\ Len(searchResults) = 2
    /\ Len(Search(cities, ready, Append(searchInput, 97), SearchLimit)) = 1

\* C30 witness of the reset: the letter has been typed, one result is left
\* and the selection is on it.
C30_WitnessReset ==
    /\ uiState = "add" /\ searchInput = TypedText
    /\ Len(searchResults) = 1 /\ selectedResult = 0

(***************************************************************************)
(* Claims about the delete view, checked under SpecDeleteView.             *)
(***************************************************************************)
\* the indices of a Go slice with the elements of list
IndicesOf(list) == 0..(Len(list) - 1)

\* C31: every key of the selection map is an index into deleteList at all
\* times; in the delete view and the confirm view the cursor is one too and
\* deleteList holds the names of the configured cities in their order; and
\* each entry into the delete view rebuilds the list from the configuration
\* with an empty selection and the cursor on the first row.
C31_DeleteIndicesValid ==
    /\ [](DOMAIN deleteSelected \subseteq IndicesOf(deleteList))
    /\ [](uiState \in {"delete", "confirm"} =>
            /\ deleteCursor \in IndicesOf(deleteList)
            /\ Len(deleteList) = Len(cfgCities)
            /\ \A i \in 1..Len(cfgCities) : deleteList[i] = cfgCities[i].Name)
    /\ [][(uiState # "delete" /\ uiState' = "delete") =>
              /\ uiState = "main"
              /\ Len(deleteList') = Len(cfgCities)
              /\ \A i \in 1..Len(cfgCities) : deleteList'[i] = cfgCities[i].Name
              /\ DOMAIN deleteSelected' = {} /\ deleteCursor' = 0]_vars

\* C31 witness: the delete view was entered again after a deletion; the
\* list has the two cities left, the cursor is on the last row and that
\* row is selected.
C31_Witness ==
    /\ uiState = "delete" /\ Len(deleteList) = 2 /\ Len(diskCities) = 2
    /\ confirmAction.set /\ Len(confirmAction.toDelete) = 1
    /\ deleteCursor = 1
    /\ DOMAIN deleteSelected = {1} /\ deleteSelected[1]

\* the rows of the delete list that are selected now
SelectedRows == {i \in DOMAIN deleteSelected : deleteSelected[i]}

\* C32 (as claimed): Enter in the delete view while no row is selected,
\* be it that none was ever selected or that each selected row was
\* deselected again, sets the error 'no cities selected', does not open the
\* confirm view and leaves the configuration as it is.
C32_EnterWithoutSelection ==
    (uiState = "delete" /\ SelectedRows = {}) =>
        \A m2 \in handleKeyPress(M, "enter") :
            /\ m2.err = "noselect"
            /\ updateAddView(m2, "enter").state = "delete"
            /\ m2.cfg = cfgCities /\ m2.disk = diskCities

\* what holds of Enter when the selection map has no entry at all
EnterWithEmptyMap ==
    (uiState = "delete" /\ DOMAIN deleteSelected = {}) =>
        \A m2 \in handleKeyPress(M, "enter") :
            /\ m2.err = "noselect"
            /\ updateAddView(m2, "enter").state = "delete"
            /\ m2.cfg = cfgCities /\ m2.disk = diskCities

\* the confirm view opened for a deletion of nothing
ConfirmOfNothing ==
    uiState = "confirm" /\ confirmAction.set /\ confirmAction.toDelete = <<>>

RECURSIVE UnselectedFrom(_, _, _)
\* the cities of cs from row idx (0-based) on whose row is not in rows
UnselectedFrom(cs, rows, idx) ==
    IF idx >= Len(cs) THEN <<>>
    ELSE IF idx \in rows THEN UnselectedFrom(cs, rows, idx + 1)
    ELSE <<cs[idx + 1]>> \o UnselectedFrom(cs, rows, idx + 1)

\* C33 (as claimed): a confirmed deletion that changes the configuration
\* leaves exactly the cities of the rows that were not selected, in their
\* order, so the number of cities drops by the number of selected rows.
C33_DeletesExactlySelectedRows ==
    [][(uiState = "confirm" /\ cfgCities' # cfgCities) =>
          /\ cfgCities' = UnselectedFrom(cfgCities, SelectedRows, 0)
          /\ Len(cfgCities') = Len(cfgCities) - Cardinality(SelectedRows)]_vars

\* one row of two with the same name was selected and both cities are gone
SameNameRowsDeleted ==
    /\ uiState = "main" /\ uiErr = "nil"
    /\ Len(deleteList) = 3 /\ Cardinality(SelectedRows) = 1
    /\ cfgCities = <<LocalCity>> /\ diskCities = <<LocalCity>>

\* main.go:364-366   View shows the error screen
ErrorScreen == uiErr # "nil"

\* C34 (as claimed): whenever the error screen is shown, in whatever view
\* state, the key 'q' quits the application.
C34_QuitFromErrorScreen ==
    (ErrorScreen /\ ~quitting) =>
        \A m2 \in handleKeyPress(M, "q") : updateAddView(m2, "q").quitting

\* what holds: 'q' quits from the error screen when the view state is main
QuitFromErrorScreenInMain ==
    (ErrorScreen /\ ~quitting /\ uiState = "main") =>
        \A m2 \in handleKeyPress(M, "q") : updateAddView(m2, "q").quitting

\* the error screen is shown over the delete view, where 'q' is not a key
ErrorScreenOverDeleteView ==
    ErrorScreen /\ ~quitting /\ uiState = "delete" /\ handleKeyPress(M, "q") = {M}

(***************************************************************************)
(* Claims about a failed add or delete, checked under SpecDeleteView.      *)
(***************************************************************************)
\* the errors of AddCity and DeleteCities, and those of Save
EditErrors == {"exists", "invalidtz", "deleteall"}
SaveErrors == {"invalid", "saveio"}

\* C35 (as claimed): a key press in which AddCity, DeleteCities or Save
\* returns an error leaves the cities in memory as they were before it and
\* equal to the cities on disk.
C35_FailedEditLeavesConfig ==
    [][(uiErr' # uiErr /\ uiErr' \in EditErrors \cup SaveErrors) =>
          /\ cfgCities' = cfgCities
          /\ cfgCities' = diskCities']_vars

\* what holds: an error of AddCity or DeleteCities leaves the cities in
\* memory and on disk as they were, and an error of Save leaves the cities
\* on disk as they were.
FailedEditLeavesDisk ==
    [][/\ ((uiErr' # uiErr /\ uiErr' \in EditErrors) =>
              (cfgCities' = cfgCities /\ diskCities' = diskCities))
       /\ ((uiErr' # uiErr /\ uiErr' \in SaveErrors) => diskCities' = diskCities)]_vars

\* Save has failed after DeleteCities: the city is gone from memory and
\* still on disk
MemoryAheadOfDisk ==
    /\ uiState = "main" /\ uiErr \in SaveErrors
    /\ Len(cfgCities) < Len(diskCities)

====
